---- MODULE Spec2Model ----
(***************************************************************************)
(* Model of the tender-document parsing and chunking pipeline:             *)
(*   - the token chunker (src/core/chunking/chunking.py),                  *)
(*   - the dynamic chunker (src/core/chunking/dynamic_chunker.py),         *)
(*   - the heading classifier (src/core/ingestion/core/                    *)
(*     heading_detection.py) and the table heuristic (table_detection.py), *)
(*   - the label/value merge, the reading-order sort with its adjacent-    *)
(*     block merge, the header/footer filter and the global repetition     *)
(*     pruning (src/infra/parsers/pdf/pdfplumber_parser.py),               *)
(*   - the ingestion service (src/core/ingestion/service.py) and the       *)
(*     parse-and-chunk route (src/api/routers/ingestion.py).               *)
(*                                                                         *)
(* A text is a sequence of lexemes: a word is one lexeme, and " " and "\n" *)
(* are whitespace lexemes.  Block texts given to the heading classifier,   *)
(* the table heuristic and the block signature are sequences of            *)
(* characters, because these look at characters.                           *)
(***************************************************************************)
EXTENDS Integers, Sequences, FiniteSets, TLC

VARIABLES
    \* ---- TokenChunker (chunking.py)
    tk_pc,              \* position: "new", "raised", "ready", "for", "while", "emit", "returned"
    tk_args,            \* the arguments given to TokenChunker.__init__
    max_tokens, min_tokens, overlap_tokens,   \* fields of the TokenChunker
    structured_chunks,  \* argument of chunk()
    ci,                 \* index of the Chunk the for loop of chunk() is at
    tokens,             \* tokens of the current Chunk
    start,              \* _build_spans: start of the next window
    spans,              \* _build_spans: the spans built so far
    token_chunks,       \* chunk(): the TokenChunks appended so far
    \* ---- DynamicChunker (dynamic_chunker.py)
    dc_pc,              \* position: "idle", "loop", "returned"
    include_tables, max_heading_level, allow_preamble,   \* fields of the DynamicChunker
    pages_in,           \* the pages as they were given to build_chunks
    pages,              \* the same pages, as build_chunks has changed them so far
    page_idx,           \* enumerate(pages, start=1): the page the loop is at
    block_idx,          \* index in that page of the next block
    current_blocks, current_title, current_level,   \* locals of build_chunks
    chunks,             \* the Chunks appended so far
    \* ---- tag_headings (heading_detection.py)
    hd_pc,              \* position: "idle", "tagged"
    page_blocks_in,     \* the blocks of the page as they were given to tag_headings
    page_blocks,        \* the list tag_headings returns (the same list, changed in place)
    \* ---- _remove_repeated_headers_footers (pdfplumber_parser.py)
    ft_calls,           \* how many times the filter has been applied
    ft_pages,           \* the pages given to the last call
    cleaned_pages,      \* the pages the last call returned
    \* ---- _merge_label_value_blocks (pdfplumber_parser.py)
    mg_pc,              \* position: "idle", "loop", "returned"
    mg_blocks,          \* the argument blocks
    mg_i,               \* enumerate(blocks): the index i of the loop, 0-based
    skip_next,          \* local of _merge_label_value_blocks
    merged,             \* the list it builds and returns
    \* ---- IngestionService (service.py)
    sv_pc,              \* position: "idle", "parse_pdf", "parse_docx", "with", "apply_ocr",
                        \*   "parse_ocr", "parse_direct", "returned", "raised"
    sv_file,            \* the document parse_document was called on
    ocr_engine,         \* field of the service: TRUE when an OCR engine was injected
    fs_dirs,            \* the temporary directories that exist
    fs_files,           \* the files that exist in them
    needs_ocr_result,   \* what ocr_engine.needs_ocr returned, None before it has
    ocr_calls,          \* the calls of ocr_engine.apply_ocr so far: <<input, output>>
    parse_calls,        \* the paths pdf_parser.parse was called on so far
    sv_result,          \* the pages returned, None when none
    \* ---- flag_table_like_blocks (table_detection.py)
    tb_pc,              \* position: "idle", "flagged"
    tb_blocks_in,       \* the blocks as they were given to flag_table_like_blocks
    tb_blocks,          \* the list it returns (the same list, changed in place)
    \* ---- _drop_globally_repeated_blocks (pdfplumber_parser.py)
    gl_calls,           \* how many times the pass has been applied
    gl_pages,           \* the pages given to the last call
    gl_cleaned,         \* the pages the last call returned
    \* ---- _sort_blocks_reading_order (pdfplumber_parser.py)
    ro_pc,              \* position: "idle", "merge", "returned"
    ro_blocks,          \* the argument blocks
    ordered,            \* sorted(blocks, key=sort_key)
    ro_i,               \* _merge_adjacent_blocks: the index of the next block of the loop, 0-based
    ro_merged           \* _merge_adjacent_blocks: the list built so far, then the list returned

tk_vars == <<tk_pc, tk_args, max_tokens, min_tokens, overlap_tokens,
             structured_chunks, ci, tokens, start, spans, token_chunks>>

dc_vars == <<dc_pc, include_tables, max_heading_level, allow_preamble, pages_in, pages,
             page_idx, block_idx, current_blocks, current_title, current_level, chunks>>

hd_vars == <<hd_pc, page_blocks_in, page_blocks>>

ft_vars == <<ft_calls, ft_pages, cleaned_pages>>

mg_vars == <<mg_pc, mg_blocks, mg_i, skip_next, merged>>

sv_vars == <<sv_pc, sv_file, ocr_engine, fs_dirs, fs_files, needs_ocr_result,
             ocr_calls, parse_calls, sv_result>>

tb_vars == <<tb_pc, tb_blocks_in, tb_blocks>>

gl_vars == <<gl_calls, gl_pages, gl_cleaned>>

ro_vars == <<ro_pc, ro_blocks, ordered, ro_i, ro_merged>>

vars == <<tk_vars, dc_vars, hd_vars, ft_vars, mg_vars, sv_vars, tb_vars, gl_vars, ro_vars>>

\* what the operations of one component leave alone: the other components
tk_rest == <<dc_vars, hd_vars, ft_vars, mg_vars, sv_vars, tb_vars, gl_vars, ro_vars>>
dc_rest == <<tk_vars, hd_vars, ft_vars, mg_vars, sv_vars, tb_vars, gl_vars, ro_vars>>
hd_rest == <<tk_vars, dc_vars, ft_vars, mg_vars, sv_vars, tb_vars, gl_vars, ro_vars>>
ft_rest == <<tk_vars, dc_vars, hd_vars, mg_vars, sv_vars, tb_vars, gl_vars, ro_vars>>
mg_rest == <<tk_vars, dc_vars, hd_vars, ft_vars, sv_vars, tb_vars, gl_vars, ro_vars>>
sv_rest == <<tk_vars, dc_vars, hd_vars, ft_vars, mg_vars, tb_vars, gl_vars, ro_vars>>
tb_rest == <<tk_vars, dc_vars, hd_vars, ft_vars, mg_vars, sv_vars, gl_vars, ro_vars>>
gl_rest == <<tk_vars, dc_vars, hd_vars, ft_vars, mg_vars, sv_vars, tb_vars, ro_vars>>
ro_rest == <<tk_vars, dc_vars, hd_vars, ft_vars, mg_vars, sv_vars, tb_vars, gl_vars>>

----------------------------------------------------------------------------
\* Bounds of the model
MaxTok    == 3      \* constructor arguments range over -1..MaxTok
MaxN      == 6      \* a Chunk text has up to MaxN single-spaced tokens
MaxGapN   == 2      \* ... or up to MaxGapN tokens with padded whitespace
MaxChunks == 2      \* chunk() is given up to MaxChunks Chunks
MaxBlocks == 3      \* a document given to build_chunks has up to MaxBlocks blocks
MaxPages  == 2      \* ... on up to MaxPages pages
MaxOffset == 1      \* ... whose page_number values start at 1 or at 1 + MaxOffset
MaxHeadBlocks == 2  \* a page given to tag_headings has up to MaxHeadBlocks blocks
MaxFilterPages == 2 \* the header/footer filter is given up to MaxFilterPages pages
MaxMergeBlocks == 3 \* the label/value merge is given up to MaxMergeBlocks blocks
MaxTableBlocks == 2 \* flag_table_like_blocks is given up to MaxTableBlocks blocks
MaxGlobalBlocks == 4 \* the global pruning is given a document of up to MaxGlobalBlocks blocks
MaxOrderBlocks == 3 \* the reading-order sort is given up to MaxOrderBlocks blocks

----------------------------------------------------------------------------
\* Helpers
Min(a, b) == IF a < b THEN a ELSE b
Max(a, b) == IF a > b THEN a ELSE b

\* Python's None and a present value
None == <<>>
Some(x) == <<x>>

SP == " "
NL == "\n"
IsWs(x) == x \in {SP, NL, "\t"}

\* str.split(): the maximal runs of non-whitespace, in order
default_tokenizer(text) == SelectSeq(text, LAMBDA x : ~IsWs(x))

\* " ".join(toks)
JoinSp(toks) ==
    IF Len(toks) = 0 THEN <<>>
    ELSE [i \in 1..(2 * Len(toks) - 1) |-> IF i % 2 = 1 THEN toks[(i + 1) \div 2] ELSE SP]

\* str.strip(): drop leading and trailing whitespace
Strip(text) ==
    LET nz == {i \in 1..Len(text) : ~IsWs(text[i])}
    IN  IF nz = {} THEN <<>>
        ELSE LET lo == CHOOSE i \in nz : \A j \in nz : i <= j
                 hi == CHOOSE i \in nz : \A j \in nz : i >= j
             IN  SubSeq(text, lo, hi)

\* tokens[a:b] of Python, 0-based and half-open
Slice(s, a, b) == SubSeq(s, a + 1, Min(b, Len(s)))

\* str(n) of a non-negative integer, as a sequence of characters
DigitSeq == <<"0", "1", "2", "3", "4", "5", "6", "7", "8", "9">>
RECURSIVE Decimal(_)
Decimal(n) ==
    IF n < 10 THEN <<DigitSeq[n + 1]>>
    ELSE Decimal(n \div 10) \o <<DigitSeq[(n % 10) + 1]>>

\* a text of n words "w" with gap whitespace lexemes between and around them
WordsText(n, gap) ==
    IF gap = 1
    THEN [i \in 1..(IF n = 0 THEN 0 ELSE 2 * n - 1) |-> IF i % 2 = 1 THEN "w" ELSE SP]
    ELSE [i \in 1..(3 * n + 2) |-> IF i % 3 = 0 THEN "w" ELSE SP]

----------------------------------------------------------------------------
\* TokenChunker.__init__ : the three checks that raise ValueError
InitRaisesLoose(mx, mn, ov) ==
    \/ mn <= 0 \/ mx <= 0 \/ ov < 0
    \/ mn > mx
    \/ ov > mx
InitRaises(mx, mn, ov) ==
    \/ mn <= 0 \/ mx <= 0 \/ ov < 0
    \/ mn > mx
    \/ ov >= mx

\* _build_spans, line 94: end = min(start + max_tokens, n)
WindowEndUnclamped(s, mx, n) == s + mx
WindowEnd(s, mx, n) == Min(s + mx, n)

\* _build_spans, line 95: the short tail window that is not emitted
ShortTailNever(s, e, mn) == FALSE
ShortTailAlsoFirst(s, e, mn) == e - s < mn
ShortTail(s, e, mn) == e - s < mn /\ s # 0

\* _build_spans, line 100: start = max(0, end - overlap)
NextStartOffByOne(e, ov) == Max(0, e - ov - 1)
NextStartDoubleOverlap(e, ov) == Max(0, e - 2 * ov)
NextStart(e, ov) == Max(0, e - ov)

\* str.lower() of a lexeme, for the lexemes of the model that have upper-case letters
LowerLex(x) ==
    CASE x = "LOT-7" -> "lot-7"
      [] x = "Bando" -> "bando"
      [] x = "Avviso" -> "avviso"
      [] x = "Art." -> "art."
      [] x = "T" -> "t"
      [] x = "Preamble" -> "preamble"
      [] OTHER -> x
LowerText(t) == [i \in 1..Len(t) |-> LowerLex(t[i])]

\* the lower-case lexemes that TENDER_CODE_PATTERN and LOT_ID_PATTERN match,
\* and the ones that contain "art." or "articolo"
TenderCodes == {"123456-2024"}
LotIds == {"lot-7"}
ArticleMarkers == {"art.", "articolo"}
\* DOC_TYPE_KEYWORDS, in the order of the dict
DocTypeKeywords == << <<"bando", "tender_notice">>, <<"avviso", "notice">>,
                     <<"rettifica", "corrigendum">>, <<"capitolato", "specs">>,
                     <<"disciplinare", "disciplinare">> >>

\* pattern.search(merged_text): the first lexeme of the text that is in S
FirstMatch(t, S) ==
    LET is == {i \in 1..Len(t) : t[i] \in S}
    IN  IF is = {} THEN None ELSE Some(t[CHOOSE i \in is : \A j \in is : i <= j])

\* _extract_metadata(text, title); an absent key is None
ExtractMetadata(text, title) ==
    LET merged_text == LowerText(title \o <<SP>> \o text)
        present     == {merged_text[i] : i \in 1..Len(merged_text)}
        found       == {k \in 1..Len(DocTypeKeywords) : DocTypeKeywords[k][1] \in present}
    IN  [tender_code   |-> FirstMatch(merged_text, TenderCodes),
         lot_id        |-> FirstMatch(merged_text, LotIds),
         document_type |-> IF found = {} THEN None
                           ELSE Some(DocTypeKeywords[CHOOSE k \in found :
                                                        \A j \in found : k <= j][2]),
         clause_type   |-> IF present \cap ArticleMarkers # {} THEN Some("article") ELSE None]

\* chunk(), line 76: f"{chunk.id}:{start}-{end}", a sequence of characters
FormatIdNoChunk(chunk_id, s, e) == <<":">> \o Decimal(s) \o <<"-">> \o Decimal(e)
FormatId(chunk_id, s, e) == chunk_id \o <<":">> \o Decimal(s) \o <<"-">> \o Decimal(e)

\* chunk(), lines 70-83: the TokenChunks of one Chunk, one per span with a non-empty piece
TokenChunkOf(chunk, toks, span) ==
    [id              |-> FormatId(chunk.id, span[1], span[2]),
     text            |-> Strip(JoinSp(Slice(toks, span[1], span[2]))),
     metadata        |-> ExtractMetadata(chunk.text, chunk.title),
     page_numbers    |-> chunk.page_numbers,
     source_chunk_id |-> chunk.id]

EmittedChunksFirstOnly(chunk, toks, sps) ==
    IF Len(sps) = 0 THEN <<>> ELSE <<TokenChunkOf(chunk, toks, sps[1])>>
EmittedChunks(chunk, toks, sps) ==
    LET all == [k \in 1..Len(sps) |-> TokenChunkOf(chunk, toks, sps[k])]
    IN  SelectSeq(all, LAMBDA tc : tc.text # <<>>)

----------------------------------------------------------------------------
\* Inputs
ExampleConfigs == {<<10, 3, 2>>, <<800, 400, 120>>}
ExampleTokens(cfg) == IF cfg = <<10, 3, 2>> THEN 23 ELSE 1000

ConfigInputs ==
    ((-1..MaxTok) \X (-1..MaxTok) \X (-1..MaxTok)) \cup ExampleConfigs

\* a text with a tender code, a lot id, a document-type keyword and an article marker
MetaText == <<"w", SP, "w", SP, "123456-2024", SP, "LOT-7", SP, "Bando", SP, "Art.">>

ChunkTexts ==
    {WordsText(n, 1) : n \in 0..MaxN} \cup {WordsText(n, 2) : n \in 0..MaxGapN}

\* the id of the i-th Chunk of a list, a sequence of characters: the ids are
\* pairwise distinct, and each is the one before it followed by ":0-1"
RECURSIVE ChunkId(_)
ChunkId(i) ==
    IF i <= 1 THEN <<"c", "-", "7">> ELSE ChunkId(i - 1) \o <<":", "0", "-", "1">>

MkChunk(i, text) ==
    [id           |-> ChunkId(i),
     title        |-> IF text = MetaText THEN <<"Avviso">> ELSE <<"T">>,
     text         |-> text,
     page_numbers |-> <<1>>]

ChunkLists ==
    UNION {[1..k -> ChunkTexts] : k \in 0..MaxChunks} \cup {<<MetaText>>}

ChunkInputs(cfg) ==
    {[i \in 1..Len(l) |-> MkChunk(i, l[i])] : l \in ChunkLists}
    \cup (IF cfg \in ExampleConfigs
          THEN {<<MkChunk(1, WordsText(ExampleTokens(cfg), 1))>>}
          ELSE {})

----------------------------------------------------------------------------
TkInit ==
    /\ tk_pc = "new"
    /\ tk_args = <<0, 0, 0>>
    /\ max_tokens = 0 /\ min_tokens = 0 /\ overlap_tokens = 0
    /\ structured_chunks = <<>>
    /\ ci = 0
    /\ tokens = <<>>
    /\ start = 0
    /\ spans = <<>>
    /\ token_chunks = <<>>

\* TokenChunker.__init__(max_tokens, min_tokens, overlap_tokens)
Construct ==
    /\ tk_pc = "new"
    /\ \E cfg \in ConfigInputs :
        /\ tk_args' = cfg
        /\ IF InitRaises(cfg[1], cfg[2], cfg[3])
           THEN /\ tk_pc' = "raised"
                /\ UNCHANGED <<max_tokens, min_tokens, overlap_tokens>>
           ELSE /\ tk_pc' = "ready"
                /\ max_tokens' = cfg[1]
                /\ min_tokens' = cfg[2]
                /\ overlap_tokens' = cfg[3]
    /\ UNCHANGED <<structured_chunks, ci, tokens, start, spans, token_chunks>>
    /\ UNCHANGED tk_rest

\* TokenChunker.chunk(structured_chunks): entry
ChunkCall ==
    /\ tk_pc = "ready"
    /\ \E input \in ChunkInputs(tk_args) : structured_chunks' = input
    /\ token_chunks' = <<>>
    /\ ci' = 1
    /\ tk_pc' = "for"
    /\ UNCHANGED <<tk_args, max_tokens, min_tokens, overlap_tokens, tokens, start, spans>>
    /\ UNCHANGED tk_rest

\* chunk(): the head of the for loop; tokenizes the Chunk and enters _build_spans
ForNext ==
    /\ tk_pc = "for"
    /\ ci <= Len(structured_chunks)
    /\ LET toks == default_tokenizer(structured_chunks[ci].text)
       IN  /\ tokens' = toks
           /\ start' = 0
           /\ spans' = <<>>
           /\ tk_pc' = IF Len(toks) = 0 THEN "emit" ELSE "while"
    /\ UNCHANGED <<tk_args, max_tokens, min_tokens, overlap_tokens,
                   structured_chunks, ci, token_chunks>>
    /\ UNCHANGED tk_rest

\* _build_spans: one iteration of the while loop
WhileStep ==
    /\ tk_pc = "while"
    /\ LET n == Len(tokens)
           end == WindowEnd(start, max_tokens, n)
       IN  IF ShortTail(start, end, min_tokens)
           THEN /\ tk_pc' = "emit"
                /\ UNCHANGED <<start, spans>>
           ELSE /\ spans' = Append(spans, <<start, end>>)
                /\ IF end = n
                   THEN /\ tk_pc' = "emit"
                        /\ UNCHANGED start
                   ELSE /\ start' = NextStart(end, overlap_tokens)
                        /\ tk_pc' = IF NextStart(end, overlap_tokens) < n THEN "while" ELSE "emit"
    /\ UNCHANGED <<tk_args, max_tokens, min_tokens, overlap_tokens,
                   structured_chunks, ci, tokens, token_chunks>>
    /\ UNCHANGED tk_rest

\* chunk(): the inner for loop over the spans of the current Chunk
Emit ==
    /\ tk_pc = "emit"
    /\ token_chunks' = token_chunks \o EmittedChunks(structured_chunks[ci], tokens, spans)
    /\ ci' = ci + 1
    /\ tk_pc' = "for"
    /\ UNCHANGED <<tk_args, max_tokens, min_tokens, overlap_tokens,
                   structured_chunks, tokens, start, spans>>
    /\ UNCHANGED tk_rest

\* chunk(): return token_chunks
Return ==
    /\ tk_pc = "for"
    /\ ci > Len(structured_chunks)
    /\ tk_pc' = "returned"
    /\ UNCHANGED <<tk_args, max_tokens, min_tokens, overlap_tokens,
                   structured_chunks, ci, tokens, start, spans, token_chunks>>
    /\ UNCHANGED tk_rest

TkNext == Construct \/ ChunkCall \/ ForNext \/ WhileStep \/ Emit \/ Return

\* TokenChunker.chunk([chunk]): entry, for a list of one Chunk
ChunkCallOne ==
    /\ tk_pc = "ready"
    /\ \E input \in {l \in ChunkInputs(tk_args) : Len(l) = 1} : structured_chunks' = input
    /\ token_chunks' = <<>>
    /\ ci' = 1
    /\ tk_pc' = "for"
    /\ UNCHANGED <<tk_args, max_tokens, min_tokens, overlap_tokens, tokens, start, spans>>
    /\ UNCHANGED tk_rest

\* the scan of one Chunk
ScanNext == Construct \/ ChunkCallOne \/ ForNext \/ WhileStep \/ Emit \/ Return


----------------------------------------------------------------------------
\* DynamicChunker

\* "\n".join(texts)
RECURSIVE JoinNl(_)
JoinNl(texts) ==
    IF Len(texts) = 0 THEN <<>>
    ELSE IF Len(texts) = 1 THEN texts[1]
    ELSE texts[1] \o <<NL>> \o JoinNl(Tail(texts))

\* sorted(list(dict.fromkeys(nums))): the distinct values in increasing order
RECURSIVE SortedSet(_)
SortedSet(S) ==
    IF S = {} THEN <<>>
    ELSE LET m == CHOOSE x \in S : \A y \in S : x <= y
         IN  <<m>> \o SortedSet(S \ {m})

\* _collect_page_numbers
CollectPageNumbersNoDedup(blocks) ==
    LET withnum == SelectSeq(blocks, LAMBDA b : b.page_number # None)
    IN  [k \in 1..Len(withnum) |-> withnum[k].page_number[1]]
CollectPageNumbers(blocks) ==
    SortedSet({blocks[k].page_number[1] :
                 k \in {j \in 1..Len(blocks) : blocks[j].page_number # None}})

\* _visible_blocks: all blocks but a level-1 heading at index 0
VisibleBlocksAll(blocks) == blocks
VisibleBlocks(blocks) ==
    IF Len(blocks) > 0 /\ blocks[1].type = "heading" /\ blocks[1].level = Some(1)
    THEN Tail(blocks)
    ELSE blocks

\* str(uuid.uuid4()): the k-th identifier drawn, distinct from the others
Uuid4(k) == <<"u", "-">> \o Decimal(k)

\* finalize, lines 76-91: the Chunk made of the open section
NewChunkBodyOnly(chs, cb, ct, cl) ==
    LET text_blocks == VisibleBlocks(cb)
    IN  [id            |-> Uuid4(Len(chs) + 1),
         title         |-> ct[1],
         heading_level |-> cl[1],
         text          |-> Strip(JoinNl([k \in 1..Len(text_blocks) |-> text_blocks[k].text])),
         blocks        |-> text_blocks,
         page_numbers  |-> CollectPageNumbers(cb)]
NewChunk(chs, cb, ct, cl) ==
    LET text_blocks == VisibleBlocks(cb)
    IN  [id            |-> Uuid4(Len(chs) + 1),
         title         |-> ct[1],
         heading_level |-> cl[1],
         text          |-> Strip(JoinNl([k \in 1..Len(text_blocks) |-> text_blocks[k].text])),
         blocks        |-> cb,
         page_numbers  |-> CollectPageNumbers(cb)]

\* build_chunks.finalize: the chunks list after the call
FinalizeNeedsBody(chs, cb, ct, cl) ==
    IF Len(cb) <= 1 \/ ct = None \/ cl = None THEN chs
    ELSE Append(chs, NewChunk(chs, cb, ct, cl))
FinalizeAnchoredOnly(chs, cb, ct, cl) ==
    IF cb = <<>> \/ ct = None \/ cl = None \/ cl = Some(0) THEN chs
    ELSE Append(chs, NewChunk(chs, cb, ct, cl))
FinalizeAlways(chs, cb, ct, cl) ==
    Append(chs, NewChunk(chs, cb, IF ct = None THEN Some(<<>>) ELSE ct,
                                  IF cl = None THEN Some(0) ELSE cl))
Finalize(chs, cb, ct, cl) ==
    IF cb = <<>> \/ ct = None \/ cl = None THEN chs
    ELSE Append(chs, NewChunk(chs, cb, ct, cl))

\* line 98, block.setdefault("page_number", page_idx)
SetDefaultPage(block, idx) ==
    IF block.page_number = None
    THEN [block EXCEPT !.page_number = Some(idx)]
    ELSE block

\* Inputs: the blocks of a document, by kind, and their split into pages
BlockKinds == {"H1", "H2", "H7", "P", "T"}
BlockWords == <<"b1", "b2", "b3", "b4", "b5", "b6", "b7", "b8">>

\* (a table block at an even position is an empty table: table_to_block gives
\* it the text "")
MkBlock(kind, j) ==
    [text        |-> IF kind = "H1" THEN <<BlockWords[j], SP>>
                     ELSE IF kind = "T" /\ j % 2 = 0 THEN <<>>
                     ELSE <<BlockWords[j]>>,
     type        |-> IF kind \in {"H1", "H2", "H7"} THEN "heading"
                     ELSE IF kind = "T" THEN "table_block" ELSE "paragraph",
     level       |-> IF kind = "H1" THEN Some(1)
                     ELSE IF kind = "H2" THEN Some(2)
                     ELSE IF kind = "H7" THEN Some(7) ELSE None,
     page_number |-> None]

\* the indexes in 1..k of the blocks that lie on page p, in order
OnPage(k, g, p) == SelectSeq([j \in 1..k |-> j], LAMBDA j : g[j] = p)

MkPages(k, kinds, np, g, off) ==
    [p \in 1..np |->
        [page_number |-> p + off,
         blocks      |-> LET js == OnPage(k, g, p)
                         IN  [i \in 1..Len(js) |-> MkBlock(kinds[js[i]], js[i])]]]

PageInputs ==
    {MkPages(k, kinds, np, g, off) :
        <<k, kinds, np, g, off>> \in
            {t \in UNION {UNION {({k} \X [1..k -> BlockKinds] \X {np} \X [1..k -> 1..np] \X {0, MaxOffset})
                                    : np \in 0..MaxPages} : k \in 0..MaxBlocks} :
                \A i \in 1..t[1] : \A j \in 1..t[1] : i < j => t[4][i] <= t[4][j]}}

DcInit ==
    /\ dc_pc = "idle"
    /\ include_tables = TRUE
    /\ max_heading_level = 6
    /\ allow_preamble = FALSE
    /\ pages_in = <<>>
    /\ pages = <<>>
    /\ page_idx = 0
    /\ block_idx = 0
    /\ current_blocks = <<>>
    /\ current_title = None
    /\ current_level = None
    /\ chunks = <<>>

\* DynamicChunker(include_tables=..., allow_preamble=...).build_chunks(pages): entry
BuildChunks ==
    /\ dc_pc = "idle"
    /\ include_tables' \in BOOLEAN
    /\ allow_preamble' \in BOOLEAN
    /\ \E input \in PageInputs : pages_in' = input /\ pages' = input
    /\ page_idx' = 1
    /\ block_idx' = 1
    /\ chunks' = <<>>
    /\ current_blocks' = <<>>
    /\ current_title' = None
    /\ current_level' = None
    /\ dc_pc' = "loop"
    /\ UNCHANGED max_heading_level
    /\ UNCHANGED dc_rest

\* build_chunks, lines 97-128: the body of the inner loop, for one block
BlockStep ==
    /\ dc_pc = "loop"
    /\ page_idx <= Len(pages)
    /\ block_idx <= Len(pages[page_idx].blocks)
    /\ LET block      == SetDefaultPage(pages[page_idx].blocks[block_idx], page_idx)
           level      == block.level
           is_heading == block.type = "heading" /\ level # None
           is_table   == block.type = "table_block"
       IN  /\ pages' = [pages EXCEPT ![page_idx].blocks[block_idx] = block]
           /\ IF is_table /\ ~include_tables
              THEN UNCHANGED <<current_blocks, current_title, current_level, chunks>>
              ELSE IF is_heading /\ level = Some(1)
              THEN /\ chunks' = Finalize(chunks, current_blocks, current_title, current_level)
                   /\ current_title' = Some(Strip(block.text))
                   /\ current_level' = level
                   /\ current_blocks' = <<block>>
              ELSE IF current_title = None
              THEN IF allow_preamble
                   THEN /\ current_title' = Some(<<"Preamble">>)
                        /\ current_level' = Some(0)
                        /\ current_blocks' = <<block>>
                        /\ UNCHANGED chunks
                   ELSE UNCHANGED <<current_blocks, current_title, current_level, chunks>>
              ELSE \* lines 123-128: both branches append the block
                   /\ current_blocks' = Append(current_blocks, block)
                   /\ UNCHANGED <<current_title, current_level, chunks>>
    /\ block_idx' = block_idx + 1
    /\ UNCHANGED <<dc_pc, include_tables, max_heading_level, allow_preamble, pages_in, page_idx>>
    /\ UNCHANGED dc_rest

\* build_chunks, line 95: the blocks of the page are exhausted, on to the next page
NextPage ==
    /\ dc_pc = "loop"
    /\ page_idx <= Len(pages)
    /\ block_idx > Len(pages[page_idx].blocks)
    /\ page_idx' = page_idx + 1
    /\ block_idx' = 1
    /\ UNCHANGED <<dc_pc, include_tables, max_heading_level, allow_preamble, pages_in, pages,
                   current_blocks, current_title, current_level, chunks>>
    /\ UNCHANGED dc_rest

\* build_chunks, lines 130-131: the final finalize() and return chunks
BuildReturn ==
    /\ dc_pc = "loop"
    /\ page_idx > Len(pages)
    /\ chunks' = Finalize(chunks, current_blocks, current_title, current_level)
    /\ current_blocks' = <<>>
    /\ current_title' = None
    /\ current_level' = None
    /\ dc_pc' = "returned"
    /\ UNCHANGED <<include_tables, max_heading_level, allow_preamble, pages_in, pages,
                   page_idx, block_idx>>
    /\ UNCHANGED dc_rest

DcNext == BuildChunks \/ BlockStep \/ NextPage \/ BuildReturn


----------------------------------------------------------------------------
\* Heading classifier.  Block texts and font names are sequences of characters.

Digits == {"0", "1", "2", "3", "4", "5", "6", "7", "8", "9"}
UpperSeq == <<"A", "B", "C", "D", "E", "F", "G", "H", "I", "J", "K", "L", "M",
              "N", "O", "P", "Q", "R", "S", "T", "U", "V", "W", "X", "Y", "Z">>
LowerSeq == <<"a", "b", "c", "d", "e", "f", "g", "h", "i", "j", "k", "l", "m",
              "n", "o", "p", "q", "r", "s", "t", "u", "v", "w", "x", "y", "z">>
UpperSet == {UpperSeq[i] : i \in 1..Len(UpperSeq)}

\* str.lower(), one character and a whole string
LowerChar(c) ==
    IF c \in UpperSet THEN LowerSeq[CHOOSE i \in 1..Len(UpperSeq) : UpperSeq[i] = c] ELSE c
Lower(t) == [i \in 1..Len(t) |-> LowerChar(t[i])]

\* \s of the patterns
IsSpaceChar(c) == c \in {" ", "\t", "\n", "\r", "\f"}

\* the text starts, whatever the case, with the lower-case word w (re.IGNORECASE)
StartsWithCI(t, w) ==
    /\ Len(t) >= Len(w)
    /\ \A i \in 1..Len(w) : LowerChar(t[i]) = w[i]

\* `needle in haystack` of Python
Contains(haystack, needle) ==
    \E i \in 0..(Len(haystack) - Len(needle)) :
        \A j \in 1..Len(needle) : haystack[i + j] = needle[j]

\* the end of the longest run of characters of the class cls that starts at
\* index i (i - 1 when the run is empty)
RunEnd(t, i, cls) ==
    LET stops == {j \in i..Len(t) : t[j] \notin cls}
    IN  IF stops = {} THEN Len(t)
        ELSE (CHOOSE j \in stops : \A k \in stops : j <= k) - 1

SpaceChars == {" ", "\t", "\n", "\r", "\f"}

\* \s+ from index i on, then one character of cls
SpacesThen(t, i, cls) ==
    LET e == RunEnd(t, i, SpaceChars)
    IN  e >= i /\ e + 1 <= Len(t) /\ t[e + 1] \in cls

\* ART_PATTERN  ^Art\.?\s+\d+.*  (IGNORECASE)
ArtPattern(t) ==
    /\ StartsWithCI(t, <<"a", "r", "t">>)
    /\ LET i == IF Len(t) >= 4 /\ t[4] = "." THEN 5 ELSE 4
       IN  SpacesThen(t, i, Digits)

\* CAPO_PATTERN  ^CAPO\s+[IVXLC]+.*  (IGNORECASE)
CapoPattern(t) ==
    /\ StartsWithCI(t, <<"c", "a", "p", "o">>)
    /\ SpacesThen(t, 5, {"I", "V", "X", "L", "C", "i", "v", "x", "l", "c"})

\* CAPITOLO_PATTERN  ^Capitolo\s+\d+.*  (IGNORECASE)
CapitoloPattern(t) ==
    /\ StartsWithCI(t, <<"c", "a", "p", "i", "t", "o", "l", "o">>)
    /\ SpacesThen(t, 9, Digits)

\* TITLE_PATTERN  ^Titolo\s+\d+.*  (IGNORECASE)
TitlePattern(t) ==
    /\ StartsWithCI(t, <<"t", "i", "t", "o", "l", "o">>)
    /\ SpacesThen(t, 7, Digits)

\* \s+.+ from index i on: one or more spaces, then a character that is not a newline
SpacesThenAny(t, i) ==
    \E k \in (i + 1)..Len(t) :
        /\ \A j \in i..(k - 1) : IsSpaceChar(t[j])
        /\ t[k] # "\n"

\* NUM_L1_PATTERN  ^\d+\.\s+.+
NumL1Pattern(t) ==
    LET d == RunEnd(t, 1, Digits)
    IN  /\ d >= 1
        /\ d + 1 <= Len(t) /\ t[d + 1] = "."
        /\ SpacesThenAny(t, d + 2)

\* NUM_L2_PATTERN  ^\d+\.\d+\.\s+.+
NumL2Pattern(t) ==
    LET d == RunEnd(t, 1, Digits)
    IN  /\ d >= 1
        /\ d + 1 <= Len(t) /\ t[d + 1] = "."
        /\ LET e == RunEnd(t, d + 2, Digits)
           IN  /\ e >= d + 2
               /\ e + 1 <= Len(t) /\ t[e + 1] = "."
               /\ SpacesThenAny(t, e + 2)

\* ALL_CAPS_PATTERN  ^[A-Z0-9 ,.'/\\-]+$  (the class also holds the typographic
\* apostrophe, which no text of the model contains)
AllCapsClass == UpperSet \cup Digits \cup {" ", ",", ".", "'", "/", "\\", "-"}
AllCapsPattern(t) ==
    /\ Len(t) >= 1
    /\ \A i \in 1..Len(t) : t[i] \in AllCapsClass

\* len(text.split())
WordCount(t) ==
    Cardinality({i \in 1..Len(t) : ~IsSpaceChar(t[i]) /\ (i = 1 \/ IsSpaceChar(t[i - 1]))})

\* str.strip() on a sequence of characters
StripChars(t) ==
    LET nz == {i \in 1..Len(t) : ~IsSpaceChar(t[i])}
    IN  IF nz = {} THEN <<>>
        ELSE SubSeq(t, CHOOSE i \in nz : \A j \in nz : i <= j,
                       CHOOSE i \in nz : \A j \in nz : i >= j)

\* _is_bold
IsBold(font_name) ==
    IF font_name = None \/ font_name = Some(<<>>) THEN FALSE
    ELSE \E token \in {<<"b", "o", "l", "d">>, <<"b", "l", "a", "c", "k">>,
                       <<"h", "e", "a", "v", "y">>,
                       <<"s", "e", "m", "i", "b", "o", "l", "d">>} :
            Contains(Lower(font_name[1]), token)

\* the numeric font sizes of the blocks, as a sequence, and the distinct ones
SizesOf(blocks) ==
    LET withsize == SelectSeq(blocks, LAMBDA b : b.font_size # None)
    IN  [k \in 1..Len(withsize) |-> withsize[k].font_size[1]]

\* twice statistics.median(sizes) of a non-empty list: the k-th smallest is the
\* value with fewer than k values below it and at least k values not above it
KthSmallest(sizes, k) ==
    CHOOSE x \in {sizes[i] : i \in 1..Len(sizes)} :
        /\ Cardinality({i \in 1..Len(sizes) : sizes[i] < x}) < k
        /\ Cardinality({i \in 1..Len(sizes) : sizes[i] <= x}) >= k
Median2(sizes) ==
    LET n == Len(sizes)
    IN  IF n % 2 = 1 THEN 2 * KthSmallest(sizes, (n + 1) \div 2)
        ELSE KthSmallest(sizes, n \div 2) + KthSmallest(sizes, n \div 2 + 1)

\* twice font_boost, the default argument of tag_headings
FontBoost2 == 3

\* twice _font_threshold(blocks, font_boost)
FontThreshold2(blocks) ==
    IF Len(SizesOf(blocks)) = 0 THEN 0 ELSE Median2(SizesOf(blocks)) + FontBoost2

\* _relative_levels: the distinct sizes; the level of a size is its rank from the largest
RelativeSizes(blocks) == {SizesOf(blocks)[i] : i \in 1..Len(SizesOf(blocks))}
RankOf(sizes, x) == 1 + Cardinality({y \in sizes : y > x})

Abs(x) == IF x < 0 THEN 0 - x ELSE x

\* min(size_levels, key=|font_size - size|): the first of the closest sizes in
\* the list, which is sorted from the largest
ClosestSize(sizes, fs) ==
    CHOOSE x \in sizes :
        /\ \A y \in sizes : Abs(fs - x) <= Abs(fs - y)
        /\ \A y \in sizes : Abs(fs - y) = Abs(fs - x) => y <= x

\* _classify_block: <<type, level>>
ClassifyBlockFontFirst(text, font_size, font_name, threshold2, sizes) ==
    IF 2 * font_size >= threshold2 /\ threshold2 > 0 /\ IsBold(font_name)
    THEN <<"heading", Some(1)>>
    ELSE IF ArtPattern(text) THEN <<"heading", Some(2)>>
    ELSE IF CapoPattern(text) \/ CapitoloPattern(text) \/ TitlePattern(text)
    THEN <<"heading", Some(1)>>
    ELSE IF NumL2Pattern(text) THEN <<"heading", Some(2)>>
    ELSE IF NumL1Pattern(text) THEN <<"heading", Some(1)>>
    ELSE IF AllCapsPattern(text) /\ WordCount(text) <= 8 THEN <<"heading", Some(1)>>
    ELSE <<"paragraph", None>>
ClassifyBlock(text, font_size, font_name, threshold2, sizes) ==
    LET bold == IsBold(font_name)
        first == IF 2 * font_size >= threshold2 /\ threshold2 > 0 /\ bold
                 THEN <<"heading", Some(1)>>
                 ELSE <<"paragraph", None>>
    IN  IF ArtPattern(text) THEN <<"heading", Some(2)>>
        ELSE IF CapoPattern(text) \/ CapitoloPattern(text) \/ TitlePattern(text)
        THEN <<"heading", Some(1)>>
        ELSE IF NumL2Pattern(text) THEN <<"heading", Some(2)>>
        ELSE IF NumL1Pattern(text) THEN <<"heading", Some(1)>>
        ELSE IF AllCapsPattern(text) /\ WordCount(text) <= 8 THEN <<"heading", Some(1)>>
        ELSE IF bold /\ font_size > 0 /\ sizes # {}
        THEN <<"heading", Some(RankOf(sizes, ClosestSize(sizes, font_size)))>>
        ELSE first

\* tag_headings, lines 97-111: the loop body, for one block
TagBlockStripped(block, threshold2, sizes) ==
    LET text == StripChars(block.text)
        font_value == IF block.font_size # None THEN block.font_size[1] ELSE 0
        res == ClassifyBlock(text, font_value, block.font_name, threshold2, sizes)
    IN  [block EXCEPT !.text = text,
                      !.type = res[1],
                      !.level = IF res[2] # None THEN res[2] ELSE @]
TagBlock(block, threshold2, sizes) ==
    LET text == StripChars(block.text)
        font_value == IF block.font_size # None THEN block.font_size[1] ELSE 0
        res == ClassifyBlock(text, font_value, block.font_name, threshold2, sizes)
    IN  [block EXCEPT !.type = res[1],
                      !.level = IF res[2] # None THEN res[2] ELSE @]

\* Inputs: the texts and fonts of the blocks of a page
TxtArt == <<"A", "r", "t", ".", " ", "5", " ", "O", "b", "b", "l", "i", "g", "h", "i", " ", "d", "e", "l", " ", "f", "o", "r", "n", "i", "t", "o", "r", "e">>
TxtArtCaps == <<"A", "R", "T", ".", " ", "5">>
TxtArtNoSpace == <<"A", "r", "t", ".", "5", " ", "O", "b", "b", "l", "i", "g", "h", "i">>
TxtCapo == <<" ", "C", "A", "P", "O", " ", "I", "I", " ", "N", "o", "r", "m", "e", " ">>
TxtCapitolo == <<"c", "a", "p", "i", "t", "o", "l", "o", " ", "3", " ", "N", "o", "r", "m", "e">>
TxtTitolo == <<"T", "i", "t", "o", "l", "o", " ", "1">>
TxtNum1 == <<"1", ".", " ", "O", "g", "g", "e", "t", "t", "o">>
TxtNum2 == <<"1", ".", "2", ".", " ", "D", "u", "r", "a", "t", "a">>
TxtNum2Caps == <<"1", ".", "2", ".", " ", "D", "U", "R", "A", "T", "A">>
TxtCaps == <<"O", "G", "G", "E", "T", "T", "O", " ", "D", "E", "L", "L", "'", "A", "P", "P", "A", "L", "T", "O">>
TxtCaps9 == <<"A", " ", "B", " ", "C", " ", "D", " ", "E", " ", "F", " ", "G", " ", "H", " ", "I">>
TxtPlain == <<"I", "l", " ", "f", "o", "r", "n", "i", "t", "o", "r", "e", " ", "d", "e", "v", "e">>
FontRegular == <<"A", "r", "i", "a", "l", "M", "T">>
FontBold == <<"A", "r", "i", "a", "l", "-", "B", "o", "l", "d", "M", "T">>
FontSemi == <<"L", "a", "t", "o", "-", "S", "E", "M", "I", "B", "O", "L", "D">>
HeadTexts == {TxtArt, TxtArtCaps, TxtArtNoSpace, TxtCapo, TxtCapitolo, TxtTitolo,
              TxtNum1, TxtNum2, TxtNum2Caps, TxtCaps, TxtCaps9, TxtPlain}
HeadFonts == {<<Some(10), Some(FontRegular)>>, <<Some(10), Some(FontBold)>>,
              <<Some(14), Some(FontSemi)>>, <<Some(20), Some(FontRegular)>>,
              <<None, None>>}
\* a page starts with no body paragraph or with two
BodyCounts == {0, 2}

MkHeadBlock(j, text, font) ==
    [text      |-> text,
     bbox      |-> <<50, 100 * j, 500, 100 * j + 20>>,
     font_size |-> font[1],
     font_name |-> font[2],
     type      |-> "paragraph",
     level     |-> None]

\* a page of nb body paragraphs in a regular font followed by k blocks, of
\* which block p has the text t, among blocks of plain text, and block j has
\* the font f[j]
MkHeadPage(nb, k, p, t, f) ==
    [j \in 1..(nb + k) |->
        IF j <= nb THEN MkHeadBlock(j, TxtPlain, <<Some(10), Some(FontRegular)>>)
        ELSE MkHeadBlock(j, IF j - nb = p THEN t ELSE TxtPlain, f[j - nb])]

HdInit ==
    /\ hd_pc = "idle"
    /\ page_blocks_in = <<>>
    /\ page_blocks = <<>>

\* tag_headings(page_blocks)
TagHeadings ==
    /\ hd_pc = "idle"
    /\ \E nb \in BodyCounts : \E k \in 0..MaxHeadBlocks :
       \E p \in {j \in 0..k : j >= 1 \/ k = 0} :
       \E t \in HeadTexts : \E f \in [1..k -> HeadFonts] :
        LET input           == MkHeadPage(nb, k, p, t, f)
            size_threshold2 == FontThreshold2(input)
            size_levels     == RelativeSizes(input)
        IN  /\ page_blocks_in' = input
            /\ page_blocks' = [j \in 1..Len(input) |->
                                  TagBlock(input[j], size_threshold2, size_levels)]
    /\ hd_pc' = "tagged"
    /\ UNCHANGED hd_rest

HdNext == TagHeadings


----------------------------------------------------------------------------
\* Header/footer filter.  A bbox is <<x0, y0, x1, y1>>; a font size is in
\* hundredths of a point.

\* round(font_size or 0, 1), in tenths of a point (no size of the model lies
\* halfway between two tenths)
Round1(size) == (size + 5) \div 10

\* lines 333 and 344: the key of a block
FilterKey(block) == <<block.text, block.font_name, Round1(block.font_size)>>

\* lines 315-321: the largest bottom y of the blocks of the page
PageHeight(page) ==
    LET ys == {page.blocks[k].bbox[4] : k \in 1..Len(page.blocks)} \cup {0}
    IN  CHOOSE y \in ys : \A z \in ys : z <= y

\* margin_ratio = 0.1, as the fraction MarginNum / MarginDen
MarginNum == 1
MarginDen == 10
\* min_occurrences, the default of _remove_repeated_headers_footers
MinOccurrences == 2

\* lines 334 and 356: bbox[1] <= margin_ratio * page_height
InTopMargin(block, h) == MarginDen * block.bbox[2] <= MarginNum * h
\* lines 336 and 358: bbox[3] >= (1 - margin_ratio) * page_height
InBottomMargin(block, h) == MarginDen * block.bbox[4] >= (MarginDen - MarginNum) * h

\* lines 323-337: header_counter[key] and footer_counter[key]; a page of
\* height 0 is skipped
MarginBlocks(pgs, key, top) ==
    UNION {{<<p, k>> : k \in {j \in 1..Len(pgs[p].blocks) :
                                /\ PageHeight(pgs[p]) > 0
                                /\ FilterKey(pgs[p].blocks[j]) = key
                                /\ IF top
                                   THEN InTopMargin(pgs[p].blocks[j], PageHeight(pgs[p]))
                                   ELSE InBottomMargin(pgs[p].blocks[j], PageHeight(pgs[p]))}}
              : p \in 1..Len(pgs)}
HeaderCount(pgs, key) == Cardinality(MarginBlocks(pgs, key, TRUE))
FooterCount(pgs, key) == Cardinality(MarginBlocks(pgs, key, FALSE))

\* lines 339-345 and 356-359: the block is dropped
IsRepeated(pgs, page, block) ==
    \/ /\ InTopMargin(block, PageHeight(page))
       /\ HeaderCount(pgs, FilterKey(block)) >= MinOccurrences
    \/ /\ InBottomMargin(block, PageHeight(page))
       /\ FooterCount(pgs, FilterKey(block)) >= MinOccurrences

\* _remove_repeated_headers_footers(pages)
RemoveRepeatedHeadersFooters(pgs) ==
    [p \in 1..Len(pgs) |->
        IF PageHeight(pgs[p]) <= 0 THEN pgs[p]
        ELSE [page_number |-> pgs[p].page_number,
              blocks      |-> SelectSeq(pgs[p].blocks,
                                        LAMBDA b : ~IsRepeated(pgs, pgs[p], b))]]

\* Inputs: a page has up to four blocks in reading order, one per band
Bands == << <<0, 4>>, <<5, 9>>, <<50, 60>>, <<95, 100>> >>
BandTexts == << {"", "a", "b"}, {"", "a"}, {"", "a", "b"}, {"", "a"} >>

MkFilterBlock(band, text) ==
    [text      |-> text,
     bbox      |-> <<50, Bands[band][1], 500, Bands[band][2]>>,
     font_size |-> IF band = 2 THEN 1004 ELSE 1000,
     font_name |-> "ArialMT"]

\* the page whose band i holds the text f[i] ("" for no block)
MkFilterPage(n, f) ==
    LET used == SelectSeq(<<1, 2, 3, 4>>, LAMBDA i : f[i] # "")
    IN  [page_number |-> n,
         blocks      |-> [k \in 1..Len(used) |-> MkFilterBlock(used[k], f[used[k]])]]

BandChoices == {f \in [1..4 -> {"", "a", "b"}] : \A i \in 1..4 : f[i] \in BandTexts[i]}

\* the pages whose p-th page holds the band texts fs[p]
MkFilterPages(n, fs) == [p \in 1..n |-> MkFilterPage(p, fs[p])]

FtInit ==
    /\ ft_calls = 0
    /\ ft_pages = <<>>
    /\ cleaned_pages = <<>>

\* pages = _remove_repeated_headers_footers(pages), on parsed pages
FilterPages ==
    /\ ft_calls = 0
    /\ \E n \in 0..MaxFilterPages : \E fs \in [1..n -> BandChoices] :
        /\ ft_pages' = MkFilterPages(n, fs)
        /\ cleaned_pages' = RemoveRepeatedHeadersFooters(MkFilterPages(n, fs))
    /\ ft_calls' = 1
    /\ UNCHANGED ft_rest

\* the filter applied to its own output
FilterAgain ==
    /\ ft_calls = 1
    /\ ft_pages' = cleaned_pages
    /\ cleaned_pages' = RemoveRepeatedHeadersFooters(cleaned_pages)
    /\ ft_calls' = 2
    /\ UNCHANGED ft_rest

FtNext == FilterPages \/ FilterAgain

----------------------------------------------------------------------------
\* Label/value merge.  A block text is a sequence of lexemes, ":" being one.

\* str.rstrip(): drop trailing whitespace
RStrip(text) ==
    LET nz == {i \in 1..Len(text) : ~IsWs(text[i])}
    IN  IF nz = {} THEN <<>>
        ELSE SubSeq(text, 1, CHOOSE i \in nz : \A j \in nz : i >= j)

\* line 221: text.rstrip().endswith(":")
EndsWithColon(text) ==
    LET t == RStrip(text) IN Len(t) > 0 /\ t[Len(t)] = ":"

\* line 225: f"{text} {next_text}".strip()
CombinedNoSpace(text, next_text) == Strip(text \o next_text)
Combined(text, next_text) == Strip(text \o <<SP>> \o next_text)

\* _aggregate_bbox over the bboxes that the two blocks have (lines 226-233)
AggregateBbox(b1, b2) ==
    IF b1 = None THEN b2
    ELSE IF b2 = None THEN b1
    ELSE Some(<<Min(b1[1][1], b2[1][1]), Min(b1[1][2], b2[1][2]),
                Max(b1[1][3], b2[1][3]), Max(b1[1][4], b2[1][4])>>)

\* `a or b` of Python on an optional number and on an optional string: None,
\* 0 and "" are false
NumOr(a, b) == IF a = None THEN b ELSE IF a[1] = 0 THEN b ELSE a
StrOr(a, b) == IF a = None THEN b ELSE IF a[1] = "" THEN b ELSE a

\* lines 234-242: the block that replaces a label and its value
MergedBlock(block, next_block) ==
    [text      |-> Combined(block.text, next_block.text),
     bbox      |-> AggregateBbox(block.bbox, next_block.bbox),
     font_size |-> NumOr(block.font_size, next_block.font_size),
     font_name |-> StrOr(block.font_name, next_block.font_name),
     type      |-> block.type]

\* Inputs: the parser's blocks have stripped, non-empty texts
TxtEmailLabel == <<"Email", ":">>
TxtEmailValue == <<"foo@bar.com">>
TxtTelLabel == <<"Tel", ":">>
TxtNote == <<"Note", ":", SP, "see", SP, "below">>
TxtWord == <<"x">>
MergeTexts == {TxtEmailLabel, TxtEmailValue, TxtTelLabel, TxtNote, TxtWord}

\* block j of a page, with or without font and bbox information
MkMergeBlock(j, text, styled) ==
    [text      |-> text,
     bbox      |-> IF styled THEN Some(<<50 + j, 20 * j, 300 - j, 20 * j + 12>>) ELSE None,
     font_size |-> IF styled THEN Some(10 + j) ELSE None,
     font_name |-> IF styled THEN Some("ArialMT") ELSE None,
     type      |-> IF text = TxtWord THEN "list_item" ELSE "paragraph"]

MgInit ==
    /\ mg_pc = "idle"
    /\ mg_blocks = <<>>
    /\ mg_i = 0
    /\ skip_next = FALSE
    /\ merged = <<>>

\* _merge_label_value_blocks(blocks): entry
MergeCall ==
    /\ mg_pc = "idle"
    /\ \E k \in 0..MaxMergeBlocks : \E t \in [1..k -> MergeTexts] : \E st \in [1..k -> BOOLEAN] :
        mg_blocks' = [j \in 1..k |-> MkMergeBlock(j, t[j], st[j])]
    /\ mg_i' = 0
    /\ skip_next' = FALSE
    /\ merged' = <<>>
    /\ mg_pc' = "loop"
    /\ UNCHANGED mg_rest

\* lines 216-245: one iteration of the for loop
MergeStep ==
    /\ mg_pc = "loop"
    /\ mg_i < Len(mg_blocks)
    /\ LET block == mg_blocks[mg_i + 1]
       IN  IF skip_next
           THEN /\ skip_next' = FALSE
                /\ UNCHANGED merged
           ELSE IF EndsWithColon(block.text) /\ mg_i + 1 < Len(mg_blocks)
           THEN /\ merged' = Append(merged, MergedBlock(block, mg_blocks[mg_i + 2]))
                /\ skip_next' = TRUE
           ELSE /\ merged' = Append(merged, block)
                /\ UNCHANGED skip_next
    /\ mg_i' = mg_i + 1
    /\ UNCHANGED <<mg_pc, mg_blocks>>
    /\ UNCHANGED mg_rest

\* line 246: return merged
MergeReturn ==
    /\ mg_pc = "loop"
    /\ mg_i >= Len(mg_blocks)
    /\ mg_pc' = "returned"
    /\ UNCHANGED <<mg_blocks, mg_i, skip_next, merged>>
    /\ UNCHANGED mg_rest

MgNext == MergeCall \/ MergeStep \/ MergeReturn

----------------------------------------------------------------------------
\* IngestionService.  A path is a record of the directory and the file name,
\* the name being a sequence of its parts.

\* ocr_text_threshold, the default of IngestionService.__init__
OcrTextThreshold == 200

\* TesseractOCREngine.needs_ocr: is_mostly_image_pdf, total_text_len < text_threshold
NeedsOcr(text_len, text_threshold) == text_len < text_threshold

\* tempfile.mkdtemp(prefix="ingestion_"): a directory that did not exist
TmpDir == "ingestion_0"

\* line 111: tmp_dir / f"ocr_{pdf_path.name}"
OcrOutputInPlace(tmp_dir, pdf_path) == pdf_path
OcrOutput(tmp_dir, pdf_path) == [dir |-> tmp_dir, name |-> <<"ocr_">> \o pdf_path.name]

\* temporary_directory, line 58: shutil.rmtree(temp_dir, ignore_errors=True);
\* the directories and the files left
RmtreeDirsKeep(dirs, d) == dirs
RmtreeDirs(dirs, d) == dirs \ {d}
RmtreeFiles(files, d) == {f \in files : f.dir # d}

\* Inputs: the documents, by name, extension, presence and length of their text layer
DocNames == {"a", "b"}
DocExts == {".pdf", ".docx", ".txt"}
DocTextLens == {0, 199, 200, 1000}
MkDoc(n, e, x, t) ==
    [path |-> [dir |-> "docs", name |-> <<n, e>>], ext |-> e, exists |-> x, text_len |-> t]

SvInit ==
    /\ sv_pc = "idle"
    /\ sv_file = MkDoc("a", ".pdf", FALSE, 0)
    /\ ocr_engine = FALSE
    /\ fs_dirs = {}
    /\ fs_files = {}
    /\ needs_ocr_result = None
    /\ ocr_calls = <<>>
    /\ parse_calls = <<>>
    /\ sv_result = None

\* IngestionService(pdf_parser, docx_parser, ocr_engine).parse_document(path),
\* lines 71-83: the checks of the path and the dispatch on the extension
ParseDocument ==
    /\ sv_pc = "idle"
    /\ ocr_engine' \in BOOLEAN
    /\ \E n \in DocNames : \E e \in DocExts : \E x \in BOOLEAN : \E t \in DocTextLens :
        /\ sv_file' = MkDoc(n, e, x, t)
        /\ sv_pc' = IF ~x THEN "raised"
                    ELSE IF e = ".pdf" THEN "parse_pdf"
                    ELSE IF e = ".docx" THEN "parse_docx"
                    ELSE "raised"
    /\ UNCHANGED <<fs_dirs, fs_files, needs_ocr_result, ocr_calls, parse_calls, sv_result>>
    /\ UNCHANGED sv_rest

\* _parse_docx: docx_parser.parse(docx_path), which returns pages or raises
ParseDocx ==
    /\ sv_pc = "parse_docx"
    /\ \E ok \in BOOLEAN :
        /\ sv_pc' = IF ok THEN "returned" ELSE "raised"
        /\ sv_result' = IF ok THEN Some(sv_file.path) ELSE None
    /\ UNCHANGED <<sv_file, ocr_engine, fs_dirs, fs_files, needs_ocr_result,
                   ocr_calls, parse_calls>>
    /\ UNCHANGED sv_rest

\* _parse_pdf, line 108: self.ocr_engine and self.ocr_engine.needs_ocr(...)
CheckOcr ==
    /\ sv_pc = "parse_pdf"
    /\ IF ocr_engine
       THEN /\ needs_ocr_result' = Some(NeedsOcr(sv_file.text_len, OcrTextThreshold))
            /\ sv_pc' = IF NeedsOcr(sv_file.text_len, OcrTextThreshold)
                        THEN "with" ELSE "parse_direct"
       ELSE /\ UNCHANGED needs_ocr_result
            /\ sv_pc' = "parse_direct"
    /\ UNCHANGED <<sv_file, ocr_engine, fs_dirs, fs_files, ocr_calls, parse_calls, sv_result>>
    /\ UNCHANGED sv_rest

\* line 110 and temporary_directory, lines 50-56: the directory is created and yielded
EnterTemporaryDirectory ==
    /\ sv_pc = "with"
    /\ fs_dirs' = fs_dirs \cup {TmpDir}
    /\ sv_pc' = "apply_ocr"
    /\ UNCHANGED <<sv_file, ocr_engine, fs_files, needs_ocr_result, ocr_calls,
                   parse_calls, sv_result>>
    /\ UNCHANGED sv_rest

\* line 112: ocr_engine.apply_ocr(pdf_path, ocr_output), which writes the
\* output or raises; when it raises, the finally of temporary_directory runs
ApplyOcr ==
    /\ sv_pc = "apply_ocr"
    /\ LET ocr_output == OcrOutput(TmpDir, sv_file.path)
       IN  /\ ocr_calls' = Append(ocr_calls, <<sv_file.path, ocr_output>>)
           /\ \E ok \in BOOLEAN :
               IF ok
               THEN /\ fs_files' = fs_files \cup {ocr_output}
                    /\ sv_pc' = "parse_ocr"
                    /\ UNCHANGED fs_dirs
               ELSE /\ fs_dirs' = RmtreeDirs(fs_dirs, TmpDir)
                    /\ fs_files' = RmtreeFiles(fs_files, TmpDir)
                    /\ sv_pc' = "raised"
    /\ UNCHANGED <<sv_file, ocr_engine, needs_ocr_result, parse_calls, sv_result>>
    /\ UNCHANGED sv_rest

\* line 113: return self.pdf_parser.parse(ocr_output), which returns pages or
\* raises; either way the finally of temporary_directory runs
ParseOcrOutput ==
    /\ sv_pc = "parse_ocr"
    /\ LET ocr_output == OcrOutput(TmpDir, sv_file.path)
       IN  /\ parse_calls' = Append(parse_calls, ocr_output)
           /\ \E ok \in BOOLEAN :
               /\ sv_pc' = IF ok THEN "returned" ELSE "raised"
               /\ sv_result' = IF ok THEN Some(ocr_output) ELSE None
    /\ fs_dirs' = RmtreeDirs(fs_dirs, TmpDir)
    /\ fs_files' = RmtreeFiles(fs_files, TmpDir)
    /\ UNCHANGED <<sv_file, ocr_engine, needs_ocr_result, ocr_calls>>
    /\ UNCHANGED sv_rest

\* line 116: return self.pdf_parser.parse(pdf_path)
ParseDirect ==
    /\ sv_pc = "parse_direct"
    /\ parse_calls' = Append(parse_calls, sv_file.path)
    /\ \E ok \in BOOLEAN :
        /\ sv_pc' = IF ok THEN "returned" ELSE "raised"
        /\ sv_result' = IF ok THEN Some(sv_file.path) ELSE None
    /\ UNCHANGED <<sv_file, ocr_engine, fs_dirs, fs_files, needs_ocr_result, ocr_calls>>
    /\ UNCHANGED sv_rest

SvNext ==
    ParseDocument \/ ParseDocx \/ CheckOcr \/ EnterTemporaryDirectory \/ ApplyOcr
        \/ ParseOcrOutput \/ ParseDirect

----------------------------------------------------------------------------
\* The parse-and-chunk pipeline of the ingestion router (api/routers/ingestion.py)

DEFAULT_MAX_TOKENS == 800
DEFAULT_MIN_TOKENS == 400
DEFAULT_OVERLAP == 120

\* lines 22-23, at import: dynamic_chunker = DynamicChunker() and
\* token_chunker = TokenChunker(), both with their defaults
ImportRouter ==
    /\ tk_pc = "new"
    /\ dc_pc = "idle"
    /\ tk_args' = <<DEFAULT_MAX_TOKENS, DEFAULT_MIN_TOKENS, DEFAULT_OVERLAP>>
    /\ max_tokens' = DEFAULT_MAX_TOKENS
    /\ min_tokens' = DEFAULT_MIN_TOKENS
    /\ overlap_tokens' = DEFAULT_OVERLAP
    /\ tk_pc' = "ready"
    /\ UNCHANGED <<structured_chunks, ci, tokens, start, spans, token_chunks>>
    /\ UNCHANGED tk_rest

\* parse_and_chunk, line 63: dyn_chunks = dynamic_chunker.build_chunks(pages)
ParseAndChunk ==
    /\ tk_pc = "ready"
    /\ BuildChunks
    /\ include_tables' = TRUE
    /\ allow_preamble' = FALSE

\* parse_and_chunk, line 65: token_chunks = token_chunker.chunk(dyn_chunks)
TokenChunkCall ==
    /\ dc_pc = "returned"
    /\ tk_pc = "ready"
    /\ structured_chunks' = chunks
    /\ token_chunks' = <<>>
    /\ ci' = 1
    /\ tk_pc' = "for"
    /\ UNCHANGED <<tk_args, max_tokens, min_tokens, overlap_tokens, tokens, start, spans>>
    /\ UNCHANGED tk_rest

PipeNext ==
    ImportRouter \/ ParseAndChunk \/ BlockStep \/ NextPage \/ BuildReturn
        \/ TokenChunkCall \/ ForNext \/ WhileStep \/ Emit \/ Return

----------------------------------------------------------------------------
\* Table heuristic (table_detection.py).  Block texts are sequences of
\* characters; "\n" is the only line boundary the texts of the model contain.

\* str.splitlines()
RECURSIVE SplitLines(_)
SplitLines(t) ==
    IF Len(t) = 0 THEN <<>>
    ELSE LET brk == {i \in 1..Len(t) : t[i] = "\n"}
         IN  IF brk = {} THEN <<t>>
             ELSE LET i == CHOOSE i \in brk : \A j \in brk : i <= j
                  IN  <<SubSeq(t, 1, i - 1)>> \o SplitLines(SubSeq(t, i + 1, Len(t)))

\* line 55: the lines that are not blank
NonBlankLines(t) == SelectSeq(SplitLines(t), LAMBDA line : StripChars(line) # <<>>)

\* the character at index i lies in a run of two or more whitespace
\* characters, which \s{2,} matches whole
InWideGap(line, i) ==
    /\ IsSpaceChar(line[i])
    /\ \/ i > 1 /\ IsSpaceChar(line[i - 1])
       \/ i < Len(line) /\ IsSpaceChar(line[i + 1])

\* line 64: the number of non-empty segments of re.split(r"\s{2,}", line)
SegmentCount(line) ==
    Cardinality({i \in 1..Len(line) :
                    ~InWideGap(line, i) /\ (i = 1 \/ InWideGap(line, i - 1))})

RECURSIVE SumSeq(_)
SumSeq(s) == IF Len(s) = 0 THEN 0 ELSE s[1] + SumSeq(Tail(s))

\* _is_table_like_text
IsTableLikeTextSeparatorFirst(text) ==
    IF Len(text) = 0 THEN FALSE
    ELSE IF Contains(text, <<"|">>) \/ Contains(text, <<"\t">>) THEN TRUE
    ELSE LET lines == NonBlankLines(text)
             column_counts == [k \in 1..Len(lines) |-> SegmentCount(lines[k])]
         IN  /\ Len(lines) >= 2
             /\ \E k \in 1..Len(lines) : column_counts[k] >= 2
             /\ 2 * SumSeq(column_counts) > 3 * Len(column_counts)
IsTableLikeText(text) ==
    IF Len(text) = 0 THEN FALSE
    ELSE LET lines == NonBlankLines(text)
             column_counts == [k \in 1..Len(lines) |-> SegmentCount(lines[k])]
         IN  IF Len(lines) < 2 THEN FALSE
             ELSE IF Contains(text, <<"|">>) \/ Contains(text, <<"\t">>) THEN TRUE
             ELSE /\ \E k \in 1..Len(lines) : column_counts[k] >= 2
                  /\ 2 * SumSeq(column_counts) > 3 * Len(column_counts)

\* flag_table_like_blocks, lines 75-79: the loop body, for one block
FlagBlock(block) ==
    LET text == StripChars(block.text)
    IN  IF block.type = "table_block" THEN block
        ELSE IF IsTableLikeText(text) THEN [block EXCEPT !.type = "table_block"]
        ELSE block

\* Inputs
TxtPipeOneLine == <<"a", "|", "b">>
TxtPipeTwoLines == <<"a", "|", "b", "\n", "c">>
TxtTabTwoLines == <<"a", "\t", "b", "\n", "c">>
TxtTabTrailing == <<"a", "\n", "b", "\t">>
TxtAligned == <<"a", " ", " ", "b", "\n", "c", " ", " ", "d">>
TxtAlignedOneRow == <<"a", " ", " ", "b", " ", " ", "c", "\n", "d">>
TxtAlignedHalf == <<"a", " ", " ", "b", "\n", "c">>
TxtProse == <<"a", " ", "b", "\n", "c", " ", "d">>
TxtAlignedBlankLine == <<"a", " ", " ", "b", "\n", " ", "\n", "c", " ", " ", "d">>
TxtAlignedOneLine == <<"a", " ", " ", "b">>
TableTexts == {TxtPipeOneLine, TxtPipeTwoLines, TxtTabTwoLines, TxtTabTrailing,
               TxtAligned, TxtAlignedOneRow, TxtAlignedHalf, TxtProse,
               TxtAlignedBlankLine, TxtAlignedOneLine, <<>>}
TableBlockTypes == {"paragraph", "heading", "table_block"}

MkTableBlock(text, type) ==
    [text |-> text, type |-> type, level |-> IF type = "heading" THEN Some(1) ELSE None]

TableInputs ==
    UNION {[1..k -> {MkTableBlock(t, ty) : t \in TableTexts, ty \in TableBlockTypes}]
              : k \in 0..MaxTableBlocks}

TbInit ==
    /\ tb_pc = "idle"
    /\ tb_blocks_in = <<>>
    /\ tb_blocks = <<>>

\* flag_table_like_blocks(blocks)
FlagTableLikeBlocks ==
    /\ tb_pc = "idle"
    /\ \E input \in TableInputs :
        /\ tb_blocks_in' = input
        /\ tb_blocks' = [k \in 1..Len(input) |-> FlagBlock(input[k])]
    /\ tb_pc' = "flagged"
    /\ UNCHANGED tb_rest

TbNext == FlagTableLikeBlocks

----------------------------------------------------------------------------
\* Global repetition pruning (pdfplumber_parser.py).  Block texts and font
\* names are sequences of characters; a font size is in hundredths of a point.

\* " ".join(text.split()).strip(): the words of the text, one space apart
NormalizeText(text) ==
    LET s    == StripChars(text)
        keep == SelectSeq([i \in 1..Len(s) |-> i],
                          LAMBDA i : ~IsSpaceChar(s[i]) \/ ~IsSpaceChar(s[i - 1]))
    IN  [k \in 1..Len(keep) |-> IF IsSpaceChar(s[keep[k]]) THEN " " ELSE s[keep[k]]]

\* f"{size:.1f}" (no size of the model lies halfway between two tenths)
FormatSize(size) ==
    Decimal(Round1(size) \div 10) \o <<".">> \o Decimal(Round1(size) % 10)

\* _block_signature: the string "<normalized_text>|<font_key>|<size_key>"
BlockSignatureTextOnly(block) ==
    NormalizeText(block.text) \o <<"|">> \o <<"|">>
BlockSignature(block) ==
    LET font_key == IF block.font_name = None THEN <<>> ELSE Lower(block.font_name[1])
        size_key == IF block.font_size = None THEN <<>> ELSE FormatSize(block.font_size[1])
    IN  NormalizeText(block.text) \o <<"|">> \o font_key \o <<"|">> \o size_key

\* min_occurrences, the default of _drop_globally_repeated_blocks
GlobalMinOccurrences == 3

\* lines 371-376: counter[key], the number of blocks of the document with the key
SignatureCount(pgs, key) ==
    SumSeq([p \in 1..Len(pgs) |->
               Len(SelectSeq(pgs[p].blocks, LAMBDA b : BlockSignature(b) = key))])

\* _drop_globally_repeated_blocks(pages)
DropGloballyRepeatedBlocks(pgs) ==
    [p \in 1..Len(pgs) |->
        [page_number |-> pgs[p].page_number,
         blocks      |-> SelectSeq(pgs[p].blocks,
                            LAMBDA b : ~(SignatureCount(pgs, BlockSignature(b))
                                            >= GlobalMinOccurrences))]]

\* Inputs: the kinds of block of a document
TxtNotice == <<"a", " ", "b">>
TxtNoticeWide == <<"a", " ", " ", "b">>
TxtOther == <<"c">>
FontLower == <<"a", "r", "i", "a", "l", "m", "t">>
GlobalKinds ==
    {<<TxtNotice, Some(FontRegular), Some(1000)>>,
     <<TxtNoticeWide, Some(FontLower), Some(1004)>>,
     <<TxtNotice, Some(FontRegular), Some(1006)>>,
     <<TxtNotice, None, None>>,
     <<TxtOther, Some(FontRegular), Some(1000)>>}

\* the j-th block of the document, of the kind kind
MkGlobalBlock(j, kind) ==
    [text      |-> kind[1],
     bbox      |-> <<50, 100 * j, 500, 100 * j + 20>>,
     font_name |-> kind[2],
     font_size |-> kind[3]]

\* a document of k blocks of which the first cut are on page 1 and the others
\* on page 2
MkGlobalPages(k, kinds, cut) ==
    << [page_number |-> 1, blocks |-> [j \in 1..cut |-> MkGlobalBlock(j, kinds[j])]],
       [page_number |-> 2,
        blocks |-> [j \in 1..(k - cut) |-> MkGlobalBlock(cut + j, kinds[cut + j])]] >>

GlInit ==
    /\ gl_calls = 0
    /\ gl_pages = <<>>
    /\ gl_cleaned = <<>>

\* pages = _drop_globally_repeated_blocks(pages), on parsed pages
DropPages ==
    /\ gl_calls = 0
    /\ \E k \in 0..MaxGlobalBlocks : \E kinds \in [1..k -> GlobalKinds] : \E cut \in 0..k :
        /\ gl_pages' = MkGlobalPages(k, kinds, cut)
        /\ gl_cleaned' = DropGloballyRepeatedBlocks(MkGlobalPages(k, kinds, cut))
    /\ gl_calls' = 1
    /\ UNCHANGED gl_rest

\* the pass applied to its own output
DropAgain ==
    /\ gl_calls = 1
    /\ gl_pages' = gl_cleaned
    /\ gl_cleaned' = DropGloballyRepeatedBlocks(gl_cleaned)
    /\ gl_calls' = 2
    /\ UNCHANGED gl_rest

GlNext == DropPages \/ DropAgain

----------------------------------------------------------------------------
\* Reading-order sort and adjacent-block merge (pdfplumber_parser.py).  A font
\* size is in points; _orig_idx is None when the key is absent.

\* sort_key, lines 257-263: <<y0, x0, idx>>
SortKey(b) ==
    IF b.bbox = None THEN <<0, 0, NumOr(b.orig_idx, Some(0))[1]>>
    ELSE <<b.bbox[1][2], b.bbox[1][1], NumOr(b.orig_idx, Some(0))[1]>>

\* the order of tuples of Python, on triples
KeyLess(a, b) ==
    \/ a[1] < b[1]
    \/ a[1] = b[1] /\ a[2] < b[2]
    \/ a[1] = b[1] /\ a[2] = b[2] /\ a[3] < b[3]

\* lines 266-269: the blocks, each with its index as _orig_idx, sorted by
\* sort_key (the keys are pairwise distinct)
SortedBlocks(blocks) ==
    LET idx == [i \in 1..Len(blocks) |-> [blocks[i] EXCEPT !.orig_idx = Some(i - 1)]]
        rank(i) == Cardinality({j \in 1..Len(idx) : KeyLess(SortKey(idx[j]), SortKey(idx[i]))})
    IN  [r \in 1..Len(idx) |-> idx[CHOOSE i \in 1..Len(idx) : rank(i) = r - 1]]

\* gap_multiplier = 0.5, the default of _merge_adjacent_blocks, as 1 / GapDen
GapDen == 2

\* lines 287-295: the block is merged into prev
MergesInto(prev, block) ==
    /\ prev.bbox # None /\ block.bbox # None
    /\ prev.font_name = block.font_name
    /\ prev.font_size = block.font_size
    /\ LET vertical_gap == block.bbox[1][2] - prev.bbox[1][4]
           font_size    == NumOr(block.font_size, NumOr(prev.font_size, Some(10)))[1]
       IN  0 <= vertical_gap /\ GapDen * vertical_gap <= font_size

\* lines 296-297: prev after the merge
MergedPrev(prev, block) ==
    [prev EXCEPT !.text = Combined(prev.text, block.text),
                 !.bbox = AggregateBbox(prev.bbox, block.bbox)]

\* Inputs: blocks of one line, at three left edges and on two rows 2 points apart
OrderLefts == {0, 20, 50}
OrderTops == {0, 12}
OrderFonts == {"ArialMT", "Arial-BoldMT"}

MkOrderBlock(j, x0, y0, font) ==
    [text      |-> <<BlockWords[j]>>,
     bbox      |-> Some(<<x0, y0, x0 + 100, y0 + 10>>),
     font_size |-> Some(10),
     font_name |-> Some(font),
     type      |-> "paragraph",
     orig_idx  |-> None]

RoInit ==
    /\ ro_pc = "idle"
    /\ ro_blocks = <<>>
    /\ ordered = <<>>
    /\ ro_i = 0
    /\ ro_merged = <<>>

\* _sort_blocks_reading_order(blocks), lines 266-270: the sort, and the entry
\* of _merge_adjacent_blocks(ordered)
SortBlocks ==
    /\ ro_pc = "idle"
    /\ \E k \in 0..MaxOrderBlocks :
       \E f \in [1..k -> OrderLefts \X OrderTops \X OrderFonts] :
        LET input == [j \in 1..k |-> MkOrderBlock(j, f[j][1], f[j][2], f[j][3])]
        IN  /\ ro_blocks' = input
            /\ ordered' = SortedBlocks(input)
    /\ ro_i' = 0
    /\ ro_merged' = <<>>
    /\ ro_pc' = "merge"
    /\ UNCHANGED ro_rest

\* _merge_adjacent_blocks, lines 280-299: one iteration of the for loop
MergeAdjacentStep ==
    /\ ro_pc = "merge"
    /\ ro_i < Len(ordered)
    /\ LET block == ordered[ro_i + 1]
           n     == Len(ro_merged)
       IN  IF n = 0 THEN ro_merged' = <<block>>
           ELSE IF MergesInto(ro_merged[n], block)
           THEN ro_merged' = [ro_merged EXCEPT ![n] = MergedPrev(ro_merged[n], block)]
           ELSE ro_merged' = Append(ro_merged, block)
    /\ ro_i' = ro_i + 1
    /\ UNCHANGED <<ro_pc, ro_blocks, ordered>>
    /\ UNCHANGED ro_rest

\* lines 272-274: _orig_idx is popped from the merged blocks, which are returned
SortReturn ==
    /\ ro_pc = "merge"
    /\ ro_i >= Len(ordered)
    /\ ro_merged' = [k \in 1..Len(ro_merged) |-> [ro_merged[k] EXCEPT !.orig_idx = None]]
    /\ ro_pc' = "returned"
    /\ UNCHANGED <<ro_blocks, ordered, ro_i>>
    /\ UNCHANGED ro_rest

RoNext == SortBlocks \/ MergeAdjacentStep \/ SortReturn

----------------------------------------------------------------------------
Init == TkInit /\ DcInit /\ HdInit /\ FtInit /\ MgInit /\ SvInit /\ TbInit /\ GlInit /\ RoInit

SpecTok == Init /\ [][TkNext]_vars
SpecDyn == Init /\ [][DcNext]_vars
SpecHead == Init /\ [][HdNext]_vars
SpecFilter == Init /\ [][FtNext]_vars
SpecMerge == Init /\ [][MgNext]_vars
SpecService == Init /\ [][SvNext]_vars
SpecPipe == Init /\ [][PipeNext]_vars
SpecTable == Init /\ [][TbNext]_vars
SpecGlobal == Init /\ [][GlNext]_vars
SpecOrder == Init /\ [][RoNext]_vars
\* _build_spans runs in the calling thread: once in the loop, the thread keeps
\* taking its iterations
SpecScan == Init /\ [][ScanNext]_vars /\ WF_vars(WhileStep)

----------------------------------------------------------------------------
\* Claims about the token chunker, checked under SpecTok

NTok(text) == Len(default_tokenizer(text))

\* C1: every span (start, end) built by the window scan over n tokens has
\* 0 <= start < end <= n, and each span starts exactly overlap_tokens before
\* the end of the span before it.
C1_SpanValidity ==
    /\ \A k \in 1..Len(spans) :
          /\ 0 <= spans[k][1]
          /\ spans[k][1] < spans[k][2]
          /\ spans[k][2] <= Len(tokens)
    /\ \A k \in 1..(Len(spans) - 1) :
          spans[k + 1][1] = spans[k][2] - overlap_tokens

C1_Witness ==
    /\ tk_pc = "emit"
    /\ Len(spans) >= 3
    /\ overlap_tokens > 0
    /\ spans[Len(spans)][2] = Len(tokens)

\* the forward sliding windows over n tokens, up to the first that reaches n
LastWindow(n, mx, ov) ==
    CHOOSE k \in 0..n : /\ k * (mx - ov) + mx >= n
                        /\ \A j \in 0..(k - 1) : j * (mx - ov) + mx < n
ForwardWindows(n, mx, ov) ==
    IF n = 0 THEN <<>>
    ELSE [k \in 1..(LastWindow(n, mx, ov) + 1) |->
            <<(k - 1) * (mx - ov), Min((k - 1) * (mx - ov) + mx, n)>>]

\* C2, as claimed: the spans of a Chunk are the forward sliding windows up to
\* and including the first window that reaches n.
C2_Original ==
    tk_pc = "emit" => spans = ForwardWindows(Len(tokens), max_tokens, overlap_tokens)

\* C2, amended: the spans are the forward sliding windows up to the first
\* window that reaches n, and that window is among them unless it is not
\* window 0 and holds fewer than min_tokens tokens; 23 tokens with
\* max_tokens=10, min_tokens=3, overlap_tokens=2 give (0,10), (8,18), (16,23).
C2_SlidingWindow ==
    /\ tk_pc = "emit" =>
          LET n   == Len(tokens)
              all == ForwardWindows(n, max_tokens, overlap_tokens)
              k   == LastWindow(n, max_tokens, overlap_tokens)
          IN  spans = IF n > 0 /\ k >= 1 /\ all[k + 1][2] - all[k + 1][1] < min_tokens
                      THEN SubSeq(all, 1, k)
                      ELSE all
    /\ (tk_pc = "emit" /\ tk_args = <<10, 3, 2>> /\ Len(tokens) = 23) =>
          spans = << <<0, 10>>, <<8, 18>>, <<16, 23>> >>

C2_Witness ==
    /\ tk_pc = "emit"
    /\ tk_args = <<10, 3, 2>>
    /\ Len(tokens) = 23
    /\ spans = << <<0, 10>>, <<8, 18>>, <<16, 23>> >>

\* C3: 1000 tokens with max_tokens=800, min_tokens=400, overlap_tokens=120
\* give the single window (0,800), and the one TokenChunk returned holds the
\* first 800 tokens: the last 320 tokens (680..999 would be the next window;
\* 800..999 are in no window) are not emitted.
C3_TailLoss ==
    (tk_args = <<800, 400, 120>> /\ Len(tokens) = 1000) =>
        /\ tk_pc = "emit" => spans = << <<0, 800>> >>
        /\ tk_pc = "returned" =>
              /\ Len(token_chunks) = 1
              /\ token_chunks[1].id = ChunkId(1) \o <<":", "0", "-", "8", "0", "0">>
              /\ NTok(token_chunks[1].text) = 800

C3_Witness ==
    /\ tk_pc = "returned"
    /\ tk_args = <<800, 400, 120>>
    /\ Len(tokens) = 1000
    /\ Len(token_chunks) = 1

\* the TokenChunks cut from the i-th Chunk
ChunksOf(i) ==
    SelectSeq(token_chunks, LAMBDA tc : tc.source_chunk_id = structured_chunks[i].id)

\* reading an id back: the part before its last ":" and the two numbers,
\* separated by "-", after it
LastIndexOf(t, c) ==
    LET is == {i \in 1..Len(t) : t[i] = c}
    IN  IF is = {} THEN 0 ELSE CHOOSE i \in is : \A j \in is : j <= i
DigitValue(c) == (CHOOSE i \in 1..10 : DigitSeq[i] = c) - 1
IsNumber(t) == Len(t) > 0 /\ \A i \in 1..Len(t) : \E d \in 1..10 : DigitSeq[d] = t[i]
RECURSIVE ParseNumber(_)
ParseNumber(t) ==
    IF Len(t) = 0 THEN 0
    ELSE 10 * ParseNumber(SubSeq(t, 1, Len(t) - 1)) + DigitValue(t[Len(t)])
IdChunk(id) == SubSeq(id, 1, LastIndexOf(id, ":") - 1)
IdSpanPart(id) == SubSeq(id, LastIndexOf(id, ":") + 1, Len(id))
IdStartPart(id) == SubSeq(IdSpanPart(id), 1, LastIndexOf(IdSpanPart(id), "-") - 1)
IdEndPart(id) == SubSeq(IdSpanPart(id), LastIndexOf(IdSpanPart(id), "-") + 1, Len(IdSpanPart(id)))
IdStart(id) == ParseNumber(IdStartPart(id))
IdEnd(id) == ParseNumber(IdEndPart(id))

C4_AtMostMax ==
    \A k \in 1..Len(token_chunks) : NTok(token_chunks[k].text) <= max_tokens

C4_LaterWindowsAtLeastMin ==
    \A k \in 1..Len(token_chunks) :
        IdStart(token_chunks[k].id) # 0 => NTok(token_chunks[k].text) >= min_tokens

\* C4, as claimed: every TokenChunk holds at most max_tokens tokens, a Chunk
\* of more than max_tokens tokens gives more than one TokenChunk, and every
\* window other than the first of its Chunk holds at least min_tokens tokens.
C4_Original ==
    tk_pc = "returned" =>
        /\ C4_AtMostMax
        /\ \A i \in 1..Len(structured_chunks) :
              NTok(structured_chunks[i].text) > max_tokens => Len(ChunksOf(i)) > 1
        /\ C4_LaterWindowsAtLeastMin

\* C4, amended: every TokenChunk holds at most max_tokens tokens and every
\* window other than the first holds at least min_tokens tokens; a Chunk of
\* n > max_tokens tokens gives more than one TokenChunk exactly when
\* n - (max_tokens - overlap_tokens) >= min_tokens, and otherwise gives the
\* single window (0, max_tokens).
C4_TokenBounds ==
    tk_pc = "returned" =>
        /\ C4_AtMostMax
        /\ \A i \in 1..Len(structured_chunks) :
              LET n == NTok(structured_chunks[i].text)
              IN  n > max_tokens =>
                    IF n - (max_tokens - overlap_tokens) >= min_tokens
                    THEN Len(ChunksOf(i)) > 1
                    ELSE /\ Len(ChunksOf(i)) = 1
                         /\ IdChunk(ChunksOf(i)[1].id) = structured_chunks[i].id
                         /\ IdStart(ChunksOf(i)[1].id) = 0
                         /\ IdEnd(ChunksOf(i)[1].id) = max_tokens
        /\ C4_LaterWindowsAtLeastMin

C4_Witness ==
    /\ tk_pc = "returned"
    /\ \E i \in 1..Len(structured_chunks) :
          /\ NTok(structured_chunks[i].text) > max_tokens
          /\ Len(ChunksOf(i)) = 1
    /\ \E i \in 1..Len(structured_chunks) :
          /\ NTok(structured_chunks[i].text) > max_tokens
          /\ Len(ChunksOf(i)) > 2

\* C5: the constructor succeeds exactly when 0 < min_tokens <= max_tokens and
\* 0 <= overlap_tokens < max_tokens; otherwise it raises, no TokenChunker
\* exists and no chunk() call has run.
C5_ConstructorContract ==
    tk_pc # "new" =>
        LET mx == tk_args[1]
            mn == tk_args[2]
            ov == tk_args[3]
            ok == 0 < mn /\ mn <= mx /\ 0 <= ov /\ ov < mx
        IN  /\ (tk_pc # "raised") <=> ok
            /\ tk_pc = "raised" => (ci = 0 /\ structured_chunks = <<>> /\ token_chunks = <<>>)
            /\ tk_pc # "raised" => <<max_tokens, min_tokens, overlap_tokens>> = tk_args

C5_Witness ==
    /\ tk_pc = "raised"
    /\ tk_args[3] = tk_args[1]
    /\ 0 < tk_args[2]
    /\ tk_args[2] <= tk_args[1]

\* C15: every TokenChunk that chunk() returns has the id
\* "<chunk_id>:<start>-<end>" and, as source_chunk_id, the id of the Chunk it
\* was cut from: read back, the id
\* gives the id of exactly one Chunk of the call and a span of that Chunk's
\* tokens whose text is the TokenChunk's text; no two TokenChunks of a call
\* share an id.
C15_TraceableIds ==
    tk_pc = "returned" =>
        /\ \A k \in 1..Len(token_chunks) :
              LET tc  == token_chunks[k]
                  src == {i \in 1..Len(structured_chunks) : structured_chunks[i].id = IdChunk(tc.id)}
              IN  /\ LastIndexOf(tc.id, ":") > 0
                  /\ IsNumber(IdStartPart(tc.id))
                  /\ IsNumber(IdEndPart(tc.id))
                  /\ tc.id = IdChunk(tc.id) \o <<":">> \o Decimal(IdStart(tc.id))
                                            \o <<"-">> \o Decimal(IdEnd(tc.id))
                  /\ tc.source_chunk_id = IdChunk(tc.id)
                  /\ Cardinality(src) = 1
                  /\ \A i \in src :
                        LET toks == default_tokenizer(structured_chunks[i].text)
                        IN  /\ IdStart(tc.id) < IdEnd(tc.id)
                            /\ IdEnd(tc.id) <= Len(toks)
                            /\ tc.text = JoinSp(Slice(toks, IdStart(tc.id), IdEnd(tc.id)))
        /\ \A j \in 1..Len(token_chunks) : \A k \in 1..Len(token_chunks) :
              j # k => token_chunks[j].id # token_chunks[k].id

\* two Chunks, the id of the second being the id of the first followed by
\* ":0-1", each cut into more than one TokenChunk
C15_Witness ==
    /\ tk_pc = "returned"
    /\ Len(structured_chunks) = 2
    /\ Len(ChunksOf(1)) >= 2
    /\ Len(ChunksOf(2)) >= 2
    /\ ChunksOf(1)[1].id = structured_chunks[2].id

TitleOf(tc) ==
    structured_chunks[CHOOSE i \in 1..Len(structured_chunks) :
                          structured_chunks[i].id = tc.source_chunk_id].title

\* C19: the metadata of a TokenChunk comes from the text of its own window
\* and the title of its Chunk: it has a tender code, a lot id, a document
\* type or a clause type only when the window text or the title has one.
C19_MetadataFromWindow ==
    \A k \in 1..Len(token_chunks) :
        LET tc  == token_chunks[k]
            own == ExtractMetadata(tc.text, TitleOf(tc))
        IN  /\ tc.metadata.tender_code # None => own.tender_code # None
            /\ tc.metadata.lot_id # None => own.lot_id # None
            /\ tc.metadata.document_type # None => own.document_type # None
            /\ tc.metadata.clause_type # None => own.clause_type # None

\* the 0-based positions of the tokens of the current Chunk that lie in no
\* window
Uncovered ==
    {i \in 0..(Len(tokens) - 1) :
        ~\E k \in 1..Len(spans) : spans[k][1] <= i /\ i < spans[k][2]}

\* C28: once the scan of a Chunk of n tokens is over, at most max_tokens - 1
\* of its tokens lie in no emitted window, and none when n <= max_tokens;
\* every window of the scan is emitted.
C28_BoundedLoss ==
    tk_pc = "emit" =>
        /\ Cardinality(Uncovered) <= max_tokens - 1
        /\ Len(tokens) <= max_tokens => Uncovered = {}
        /\ Len(EmittedChunks(structured_chunks[ci], tokens, spans)) = Len(spans)

\* a scan that loses max_tokens - 1 tokens, more than one
C28_Witness ==
    /\ tk_pc = "emit"
    /\ max_tokens >= 3
    /\ Len(spans) >= 1
    /\ Cardinality(Uncovered) = max_tokens - 1

\* C30: for every configuration the constructor accepts and every token
\* count n the window scan terminates: start strictly increases from one
\* iteration to the next, at most n windows are produced, and the loop is left.
C30_ScanTerminates ==
    /\ [](tk_pc \in {"while", "emit"} =>
            /\ Len(spans) <= Len(tokens)
            /\ \A k \in 1..(Len(spans) - 1) : spans[k][1] < spans[k + 1][1])
    /\ [][(tk_pc = "while" /\ tk_pc' = "while") =>
            (start' > start /\ overlap_tokens < max_tokens)]_vars
    /\ (tk_pc = "while") ~> (tk_pc = "emit")

\* a scan that produces n windows for n tokens
C30_Witness ==
    /\ tk_pc = "emit"
    /\ Len(tokens) >= 3
    /\ Len(spans) = Len(tokens)
    /\ max_tokens = 1

----------------------------------------------------------------------------
\* Claims about the dynamic chunker, checked under SpecDyn

SeqRange(q) == {q[k] : k \in 1..Len(q)}

\* C7: the page numbers of the returned Chunks are page_number values of the
\* pages build_chunks was given.
C7_PageNumberSubset ==
    dc_pc = "returned" =>
        \A c \in 1..Len(chunks) :
            SeqRange(chunks[c].page_numbers) \subseteq
                {pages_in[p].page_number : p \in 1..Len(pages_in)}

\* C8: the page_numbers of every Chunk is the strictly increasing list of the
\* distinct page_number values of the blocks of the Chunk.
C8_PageNumbersOfBlocks ==
    \A c \in 1..Len(chunks) :
        LET pn == chunks[c].page_numbers
            bl == chunks[c].blocks
        IN  /\ \A i \in 1..Len(pn) : \A j \in 1..Len(pn) : i < j => pn[i] < pn[j]
            /\ \A k \in 1..Len(bl) : bl[k].page_number # None
            /\ SeqRange(pn) = {bl[k].page_number[1] : k \in 1..Len(bl)}

C8_Witness ==
    /\ dc_pc = "returned"
    /\ \E c \in 1..Len(chunks) :
          /\ Len(chunks[c].blocks) = 3
          /\ chunks[c].page_numbers = <<1, 2>>

\* the blocks of the pages, in document order
RECURSIVE Stream(_)
Stream(pgs) ==
    IF Len(pgs) = 0 THEN <<>> ELSE pgs[1].blocks \o Stream(Tail(pgs))

\* the blocks that the loop of build_chunks has gone through so far
Processed ==
    IF page_idx > Len(pages) THEN Stream(pages)
    ELSE Stream(SubSeq(pages, 1, page_idx - 1))
            \o SubSeq(pages[page_idx].blocks, 1, block_idx - 1)

IsH1(block) == block.type = "heading" /\ block.level = Some(1)

\* a block as it was before build_chunks gave it a page_number
Bare(block) == [block EXCEPT !.page_number = None]
BareAll(blocks) == [k \in 1..Len(blocks) |-> Bare(blocks[k])]

Anchored(chs) == SelectSeq(chs, LAMBDA c : c.heading_level = 1)

\* the blocks before the first level-1 heading (all of them when there is none)
BeforeFirstH1(blocks) ==
    LET hs == {k \in 1..Len(blocks) : IsH1(blocks[k])}
    IN  IF hs = {} THEN blocks
        ELSE SubSeq(blocks, 1, (CHOOSE k \in hs : \A j \in hs : k <= j) - 1)

\* the blocks from the first level-1 heading on (none when there is none)
FromFirstH1(blocks) ==
    SubSeq(blocks, Len(BeforeFirstH1(blocks)) + 1, Len(blocks))

\* the blocks that build_chunks does not skip
Kept(blocks) ==
    IF include_tables THEN blocks
    ELSE SelectSeq(blocks, LAMBDA b : b.type # "table_block")

\* the blocks of the Chunks, in order, as they were in the input
RECURSIVE AllBlocks(_)
AllBlocks(chs) ==
    IF Len(chs) = 0 THEN <<>>
    ELSE BareAll(chs[1].blocks) \o AllBlocks(Tail(chs))

\* C12: every level-1 heading closes the section open before it and opens a
\* new one, and the end of the stream closes the last one: while the loop
\* runs, the level-1 headings gone through are the anchors of the Chunks
\* emitted plus the open section; the heading-anchored Chunks returned are one
\* per level-1 heading, in document order, the k-th with heading_level 1, the
\* stripped text of the k-th level-1 heading as title and that heading as
\* first block.
C12_SectionPerHeading ==
    /\ dc_pc = "loop" =>
          LET seen == SelectSeq(Processed, IsH1)
              open == IF current_level = Some(1) THEN 1 ELSE 0
          IN  /\ Len(Anchored(chunks)) + open = Len(seen)
              /\ open = 1 => /\ current_title = Some(Strip(seen[Len(seen)].text))
                             /\ current_blocks[1] = seen[Len(seen)]
    /\ dc_pc = "returned" =>
          LET h1 == SelectSeq(Stream(pages_in), IsH1)
              an == Anchored(chunks)
          IN  /\ Len(an) = Len(h1)
              /\ \A k \in 1..Len(an) :
                    /\ an[k].title = Strip(h1[k].text)
                    /\ Bare(an[k].blocks[1]) = h1[k]
              /\ \A c \in 1..Len(chunks) : chunks[c].heading_level \in {0, 1}

\* two level-1 headings, the second the last block of the document
C12_Witness ==
    /\ dc_pc = "returned"
    /\ Len(Stream(pages_in)) = 3
    /\ IsH1(Stream(pages_in)[1])
    /\ ~IsH1(Stream(pages_in)[2])
    /\ IsH1(Stream(pages_in)[3])
    /\ Len(chunks) = 2
    /\ chunks[2].title = <<"b3">>
    /\ Len(chunks[2].blocks) = 1

\* C13, as claimed: with allow_preamble false no Chunk holds a block that
\* precedes the first level-1 heading (the blocks of the Chunks are, position
\* by position, the blocks kept from the first level-1 heading on); with allow_preamble true and a block
\* before the first level-1 heading, the first Chunk is "Preamble", of level
\* 0, and holds exactly those blocks in order.
C13_Original ==
    dc_pc = "returned" =>
        LET pre == BeforeFirstH1(Stream(pages_in))
        IN  /\ ~allow_preamble =>
                  AllBlocks(chunks) = Kept(FromFirstH1(Stream(pages_in)))
            /\ (allow_preamble /\ pre # <<>>) =>
                  /\ Len(chunks) >= 1
                  /\ chunks[1].title = <<"Preamble">>
                  /\ chunks[1].heading_level = 0
                  /\ BareAll(chunks[1].blocks) = pre

\* C13, amended: with allow_preamble false no Chunk holds a block that
\* precedes the first level-1 heading; with allow_preamble true, the blocks
\* before the first level-1 heading, without the table blocks when
\* include_tables is false, form the first Chunk, "Preamble" of level 0, in
\* their order; when no such block is left there is no Preamble Chunk.
C13_Preamble ==
    dc_pc = "returned" =>
        LET pre  == BeforeFirstH1(Stream(pages_in))
            kept == Kept(pre)
        IN  /\ ~allow_preamble =>
                  AllBlocks(chunks) = Kept(FromFirstH1(Stream(pages_in)))
            /\ (allow_preamble /\ kept # <<>>) =>
                  /\ Len(chunks) >= 1
                  /\ chunks[1].title = <<"Preamble">>
                  /\ chunks[1].heading_level = 0
                  /\ BareAll(chunks[1].blocks) = kept
            /\ (allow_preamble /\ kept = <<>>) =>
                  \A c \in 1..Len(chunks) : chunks[c].heading_level # 0

\* a preamble of two blocks before a level-1 heading, the first of them a
\* table block that include_tables = false leaves out
C13_Witness ==
    /\ dc_pc = "returned"
    /\ allow_preamble
    /\ ~include_tables
    /\ Len(Stream(pages_in)) = 3
    /\ Stream(pages_in)[1].type = "table_block"
    /\ Stream(pages_in)[2].type = "paragraph"
    /\ IsH1(Stream(pages_in)[3])
    /\ Len(chunks) = 2
    /\ chunks[1].title = <<"Preamble">>
    /\ Len(chunks[1].blocks) = 1

TextsOf(blocks) == [k \in 1..Len(blocks) |-> blocks[k].text]

\* C14, as claimed: in a Chunk anchored at a level-1 heading the anchor is
\* the first block, and the text is the newline-join of the texts of the
\* other blocks, in order.
C14_Original ==
    \A c \in 1..Len(chunks) :
        chunks[c].heading_level = 1 =>
            /\ IsH1(chunks[c].blocks[1])
            /\ chunks[c].text = JoinNl(TextsOf(Tail(chunks[c].blocks)))

\* C14, amended: the text is that newline-join with its leading and trailing
\* whitespace stripped.
C14_AnchorExcluded ==
    \A c \in 1..Len(chunks) :
        chunks[c].heading_level = 1 =>
            /\ IsH1(chunks[c].blocks[1])
            /\ chunks[c].title = Strip(chunks[c].blocks[1].text)
            /\ chunks[c].text = Strip(JoinNl(TextsOf(Tail(chunks[c].blocks))))

\* a heading, an empty table and a paragraph: the join "\nb3" is stripped
C14_Witness ==
    /\ dc_pc = "returned"
    /\ Len(chunks) = 1
    /\ chunks[1].heading_level = 1
    /\ Len(chunks[1].blocks) = 3
    /\ chunks[1].blocks[2].text = <<>>
    /\ chunks[1].text = <<"b3">>

\* C25: every heading block among the blocks of a Chunk returned by
\* build_chunks has a level of at most max_heading_level.
C25_HeadingLevelBounded ==
    dc_pc = "returned" =>
        \A c \in 1..Len(chunks) : \A k \in 1..Len(chunks[c].blocks) :
            LET b == chunks[c].blocks[k]
            IN  (b.type = "heading" /\ b.level # None) => b.level[1] <= max_heading_level

\* C26: build_chunks leaves the blocks it is given as they were: after the
\* call every input block has the keys and values it had before the call.
C26_InputBlocksUnchanged ==
    dc_pc = "returned" =>
        /\ Len(pages) = Len(pages_in)
        /\ \A p \in 1..Len(pages) : pages[p].blocks = pages_in[p].blocks

\* the blocks of the Chunks, in order, as the Chunks hold them
RECURSIVE ConcatBlocks(_)
ConcatBlocks(chs) ==
    IF Len(chs) = 0 THEN <<>> ELSE chs[1].blocks \o ConcatBlocks(Tail(chs))

----------------------------------------------------------------------------
\* Claims about the heading classifier, checked under SpecHead

\* C9: tag_headings returns as many blocks as it was given, in the same order,
\* and changes no field of a block other than type and level.
C9_TaggingNonDestructive ==
    hd_pc = "tagged" =>
        /\ Len(page_blocks) = Len(page_blocks_in)
        /\ \A k \in 1..Len(page_blocks) :
              /\ page_blocks[k].text = page_blocks_in[k].text
              /\ page_blocks[k].bbox = page_blocks_in[k].bbox
              /\ page_blocks[k].font_size = page_blocks_in[k].font_size
              /\ page_blocks[k].font_name = page_blocks_in[k].font_name

C9_Witness ==
    /\ hd_pc = "tagged"
    /\ Len(page_blocks) = 2
    /\ page_blocks[2].text = TxtCapo
    /\ page_blocks[2].type = "heading"
    /\ page_blocks[2].level = Some(1)
    /\ page_blocks[1].type = "paragraph"

IsHeadingOfLevel(block, lv) == block.type = "heading" /\ block.level = Some(lv)

\* C10, as claimed: a block whose (stripped) text matches a structural pattern
\* is a heading of that pattern's level, whatever its font: Art. N -> 2;
\* CAPO, Capitolo, Titolo, "N. text" -> 1; "N.N. text" -> 2; an all-caps line
\* of at most 8 words -> 1.
C10_Original ==
    hd_pc = "tagged" =>
        \A k \in 1..Len(page_blocks) :
            LET t == StripChars(page_blocks_in[k].text)
                b == page_blocks[k]
            IN  /\ ArtPattern(t) => IsHeadingOfLevel(b, 2)
                /\ (CapoPattern(t) \/ CapitoloPattern(t) \/ TitlePattern(t) \/ NumL1Pattern(t))
                      => IsHeadingOfLevel(b, 1)
                /\ NumL2Pattern(t) => IsHeadingOfLevel(b, 2)
                /\ (AllCapsPattern(t) /\ WordCount(t) <= 8) => IsHeadingOfLevel(b, 1)

\* C10, amended: the same, but an all-caps line of at most 8 words is a
\* heading of level 1 only when it matches neither "Art. N" nor "N.N. text",
\* which make it a heading of level 2.
C10_PatternLevels ==
    hd_pc = "tagged" =>
        \A k \in 1..Len(page_blocks) :
            LET t == StripChars(page_blocks_in[k].text)
                b == page_blocks[k]
            IN  /\ ArtPattern(t) => IsHeadingOfLevel(b, 2)
                /\ (CapoPattern(t) \/ CapitoloPattern(t) \/ TitlePattern(t) \/ NumL1Pattern(t))
                      => IsHeadingOfLevel(b, 1)
                /\ NumL2Pattern(t) => IsHeadingOfLevel(b, 2)
                /\ (AllCapsPattern(t) /\ WordCount(t) <= 8 /\ ~ArtPattern(t) /\ ~NumL2Pattern(t))
                      => IsHeadingOfLevel(b, 1)

\* "Art. 5 Obblighi del fornitore" in a bold font above the page threshold
C10_Witness ==
    /\ hd_pc = "tagged"
    /\ \E k \in 1..Len(page_blocks) :
          /\ page_blocks[k].text = TxtArt
          /\ IsBold(page_blocks[k].font_name)
          /\ 2 * page_blocks[k].font_size[1] >= FontThreshold2(page_blocks_in)
          /\ IsHeadingOfLevel(page_blocks[k], 2)

\* the text matches none of the structural patterns
NoPattern(t) ==
    /\ ~ArtPattern(t)
    /\ ~CapoPattern(t) /\ ~CapitoloPattern(t) /\ ~TitlePattern(t)
    /\ ~NumL1Pattern(t) /\ ~NumL2Pattern(t)
    /\ ~(AllCapsPattern(t) /\ WordCount(t) <= 8)

\* C20: a bold block that matches no structural pattern and whose font size
\* is at or above the page threshold (median font size + font_boost) is a
\* heading of level 1.
C20_BoldAboveThreshold ==
    hd_pc = "tagged" =>
        \A k \in 1..Len(page_blocks) :
            LET b == page_blocks_in[k]
            IN  (/\ IsBold(b.font_name)
                 /\ NoPattern(StripChars(b.text))
                 /\ b.font_size # None
                 /\ FontThreshold2(page_blocks_in) > 0
                 /\ 2 * b.font_size[1] >= FontThreshold2(page_blocks_in))
                    => IsHeadingOfLevel(page_blocks[k], 1)

\* C21: a block that matches no lexical pattern is tagged heading only if its
\* font is bold and its font size is at or above the page threshold (median
\* font size + font_boost); every other such block stays a paragraph.
C21_HeadingOnlyAboveThreshold ==
    hd_pc = "tagged" =>
        \A k \in 1..Len(page_blocks) :
            LET b == page_blocks_in[k]
            IN  NoPattern(StripChars(b.text)) =>
                  IF /\ IsBold(b.font_name)
                     /\ b.font_size # None
                     /\ FontThreshold2(page_blocks_in) > 0
                     /\ 2 * b.font_size[1] >= FontThreshold2(page_blocks_in)
                  THEN page_blocks[k].type = "heading"
                  ELSE page_blocks[k].type = "paragraph"

----------------------------------------------------------------------------
\* Claims about the header/footer filter, checked under SpecFilter

BlockCount(pgs) == [p \in 1..Len(pgs) |-> Len(pgs[p].blocks)]

\* C6: the header/footer filter applied to its own output removes no block.
C6_FilterIdempotent ==
    ft_calls = 2 => BlockCount(cleaned_pages) = BlockCount(ft_pages)

\* the pages on which a block with the key is a header (top) or footer candidate
CandidatePages(pgs, key, top) == {pb[1] : pb \in MarginBlocks(pgs, key, top)}

\* C23: the header/footer pass removes a block if and only if the block is a
\* header (resp. footer) candidate on its page and its signature is a header
\* (resp. footer) candidate on at least min_occurrences distinct pages; a
\* signature repeated only within the margin of one page is never removed.
C23_RemovedIffOnDistinctPages ==
    ft_calls = 1 =>
        \A p \in 1..Len(ft_pages) :
            LET h == PageHeight(ft_pages[p])
                removed(b) ==
                    /\ h > 0
                    /\ \/ /\ InTopMargin(b, h)
                          /\ Cardinality(CandidatePages(ft_pages, FilterKey(b), TRUE))
                                >= MinOccurrences
                       \/ /\ InBottomMargin(b, h)
                          /\ Cardinality(CandidatePages(ft_pages, FilterKey(b), FALSE))
                                >= MinOccurrences
            IN  cleaned_pages[p].blocks =
                    SelectSeq(ft_pages[p].blocks, LAMBDA b : ~removed(b))

----------------------------------------------------------------------------
\* Claims about the two chunkers together, checked under SpecPipe

\* C18: build_chunks given an empty page list returns an empty Chunk list,
\* and TokenChunker.chunk given an empty Chunk list returns an empty
\* TokenChunk list.
C18_EmptyInEmptyOut ==
    /\ (dc_pc = "returned" /\ pages_in = <<>>) => chunks = <<>>
    /\ (tk_pc = "returned" /\ structured_chunks = <<>>) => token_chunks = <<>>

C18_Witness ==
    /\ dc_pc = "returned"
    /\ pages_in = <<>>
    /\ chunks = <<>>
    /\ tk_pc = "returned"
    /\ structured_chunks = <<>>
    /\ token_chunks = <<>>

----------------------------------------------------------------------------
\* Claims about the ingestion service, checked under SpecService

\* C16: apply_ocr is called only after needs_ocr returned true for the file,
\* and at most once, on the file; once it has been called the parser is run on
\* the path apply_ocr wrote to, in the temporary directory, and never on the
\* original path; when it has not been called the parser is run on the
\* original path; a parse that returns has run the parser once.
C16_OcrGating ==
    /\ Len(ocr_calls) <= 1
    /\ Len(ocr_calls) = 1 =>
          /\ ocr_engine
          /\ needs_ocr_result = Some(TRUE)
          /\ sv_file.text_len < OcrTextThreshold
          /\ ocr_calls[1][1] = sv_file.path
          /\ ocr_calls[1][2].dir = TmpDir
    /\ Len(parse_calls) <= 1
    /\ \A k \in 1..Len(parse_calls) :
          IF Len(ocr_calls) = 1
          THEN parse_calls[k] = ocr_calls[1][2] /\ parse_calls[k] # sv_file.path
          ELSE parse_calls[k] = sv_file.path
    /\ (sv_pc = "returned" /\ sv_file.ext = ".pdf") => Len(parse_calls) = 1

C16_Witness ==
    /\ sv_pc = "returned"
    /\ Len(ocr_calls) = 1
    /\ parse_calls = <<[dir |-> TmpDir, name |-> <<"ocr_", "b", ".pdf">>]>>
    /\ sv_file.text_len = 199

----------------------------------------------------------------------------
\* Claims about the label/value merge, checked under SpecMerge

\* the indexes (1-based) of the blocks that the merge takes as a label: a
\* block that is not the value of the label before it, ends with ":" and has
\* a next block
RECURSIVE LabelIndexes(_, _)
LabelIndexes(blocks, i) ==
    IF i > Len(blocks) THEN {}
    ELSE IF EndsWithColon(blocks[i].text) /\ i < Len(blocks)
    THEN {i} \cup LabelIndexes(blocks, i + 2)
    ELSE LabelIndexes(blocks, i + 1)

MergedTexts == {merged[k].text : k \in 1..Len(merged)}

\* C11, as claimed: every block whose text ends with ":" and that has a next
\* block is concatenated with that next block into one block "<label> <value>",
\* the next block is consumed, and the list shrinks by one per merge.
C11_Original ==
    mg_pc = "returned" =>
        LET labels == {i \in 1..(Len(mg_blocks) - 1) : EndsWithColon(mg_blocks[i].text)}
        IN  /\ \A i \in labels :
                  (mg_blocks[i].text \o <<SP>> \o mg_blocks[i + 1].text) \in MergedTexts
            /\ Len(merged) = Len(mg_blocks) - Cardinality(labels)

\* C11, amended: the same for every block that is not itself consumed as the
\* value of the label before it: such a block, when its text ends with ":" and
\* it has a next block, becomes with that next block the one block
\* "<label> <value>"; every other block that is not consumed is kept as it is;
\* the list shrinks by one per merge; "Email:" followed by "foo@bar.com" gives
\* the single block "Email: foo@bar.com".
C11_LabelValueMerge ==
    mg_pc = "returned" =>
        LET labels   == LabelIndexes(mg_blocks, 1)
            consumed == {i + 1 : i \in labels}
            kept     == SelectSeq([i \in 1..Len(mg_blocks) |-> i], LAMBDA i : i \notin consumed)
        IN  /\ Len(merged) = Len(mg_blocks) - Cardinality(labels)
            /\ Len(merged) = Len(kept)
            /\ \A k \in 1..Len(kept) :
                  IF kept[k] \in labels
                  THEN merged[k].text =
                          mg_blocks[kept[k]].text \o <<SP>> \o mg_blocks[kept[k] + 1].text
                  ELSE merged[k] = mg_blocks[kept[k]]
            /\ (Len(mg_blocks) = 2 /\ mg_blocks[1].text = TxtEmailLabel
                                   /\ mg_blocks[2].text = TxtEmailValue)
                  => /\ Len(merged) = 1
                     /\ merged[1].text = <<"Email", ":", SP, "foo@bar.com">>

\* "Tel:", "Email:", "foo@bar.com": the second label is the value of the first
C11_Witness ==
    /\ mg_pc = "returned"
    /\ Len(mg_blocks) = 3
    /\ mg_blocks[1].text = TxtTelLabel
    /\ mg_blocks[2].text = TxtEmailLabel
    /\ mg_blocks[3].text = TxtEmailValue
    /\ Len(merged) = 2
    /\ merged[1].text = <<"Tel", ":", SP, "Email", ":">>
    /\ merged[2].text = TxtEmailValue

----------------------------------------------------------------------------
\* Claims about the table heuristic, checked under SpecTable

HasSeparator(t) == \E i \in 1..Len(t) : t[i] \in {"|", "\t"}

\* twice the mean of the segment counts of the lines exceeds 3
MeanAbove15(lines) ==
    2 * SumSeq([k \in 1..Len(lines) |-> SegmentCount(lines[k])]) > 3 * Len(lines)

\* C22, as claimed: a block that is not already a table becomes table_block
\* exactly when its text contains a tab or a pipe, whatever its number of
\* lines, or when two or more segments are found on more than one line and
\* the mean segment count over the lines exceeds 1.5.
C22_Original ==
    tb_pc = "flagged" =>
        \A k \in 1..Len(tb_blocks) :
            LET b     == tb_blocks_in[k]
                lines == NonBlankLines(b.text)
                wide  == {j \in 1..Len(lines) : SegmentCount(lines[j]) >= 2}
            IN  b.type # "table_block" =>
                  (tb_blocks[k].type = "table_block"
                      <=> \/ HasSeparator(b.text)
                          \/ Cardinality(wide) > 1 /\ MeanAbove15(lines))

\* C22, amended: a block that is not already a table becomes table_block
\* exactly when its stripped text has two or more non-blank lines and either
\* contains a tab or a pipe, or has two or more segments on at least one
\* non-blank line and a mean segment count over the non-blank lines above
\* 1.5; nothing else of a block changes.
C22_TableLike ==
    tb_pc = "flagged" =>
        /\ Len(tb_blocks) = Len(tb_blocks_in)
        /\ \A k \in 1..Len(tb_blocks) :
            LET b     == tb_blocks_in[k]
                lines == NonBlankLines(StripChars(b.text))
                wide  == {j \in 1..Len(lines) : SegmentCount(lines[j]) >= 2}
                table == /\ Len(lines) >= 2
                         /\ \/ HasSeparator(StripChars(b.text))
                            \/ wide # {} /\ MeanAbove15(lines)
            IN  tb_blocks[k] =
                    IF b.type # "table_block" /\ table
                    THEN [b EXCEPT !.type = "table_block"]
                    ELSE b

\* a one-line text with a pipe stays a paragraph, and a text with three
\* segments on one line and one on the other becomes a table
C22_Witness ==
    /\ tb_pc = "flagged"
    /\ Len(tb_blocks) = 2
    /\ tb_blocks_in[1] = MkTableBlock(TxtPipeOneLine, "paragraph")
    /\ tb_blocks[1].type = "paragraph"
    /\ tb_blocks_in[2] = MkTableBlock(TxtAlignedOneRow, "paragraph")
    /\ tb_blocks[2].type = "table_block"

----------------------------------------------------------------------------
\* Claims about the global repetition pruning, checked under SpecGlobal

\* the signature of a block as a triple: the whitespace-normalized text, the
\* lower-cased font name and the font size in tenths of a point
SignatureTriple(block) ==
    <<JoinSp(SelectSeq(block.text, LAMBDA c : ~IsSpaceChar(c))),
      IF block.font_name = None THEN <<>> ELSE Lower(block.font_name[1]),
      IF block.font_size = None THEN None ELSE Some(Round1(block.font_size[1]))>>

\* the places <<page, index>> of the document whose block has the signature
Occurrences(pgs, sig) ==
    {pk \in UNION {{<<p, k>> : k \in 1..Len(pgs[p].blocks)} : p \in 1..Len(pgs)} :
        SignatureTriple(pgs[pk[1]].blocks[pk[2]]) = sig}

----------------------------------------------------------------------------
\* Claims about the reading-order sort, checked under SpecOrder

\* the pair <<top_y, left_x>> of a is at most that of b
PairLeq(a, b) ==
    \/ a.bbox[1][2] < b.bbox[1][2]
    \/ a.bbox[1][2] = b.bbox[1][2] /\ a.bbox[1][1] <= b.bbox[1][1]

\* C27: the block list returned for a page, after the reading-order sort and
\* the adjacent-block merge, is in reading order: of two consecutive blocks
\* the first has the pair (top_y, left_x) at most that of the second.
C27_ReadingOrder ==
    ro_pc = "returned" =>
        \A k \in 1..(Len(ro_merged) - 1) : PairLeq(ro_merged[k], ro_merged[k + 1])

====
